---------------------------- MODULE Spec2Model ----------------------------
(***************************************************************************)
(* Misaligned board inspection: the acquisition loop (VideoThread), the    *)
(* actuator link (RelayController) with its continuous-test thread, the    *)
(* detection engine (DetectionEngine) with its evidence store, and the     *)
(* coordinator (VideoApp).  Each component has its own specification.      *)
(*                                                                         *)
(* VideoThread runs on its own thread; stop() is called from the GUI       *)
(* thread.  Every access to a shared attribute (self.cap, self.running) is *)
(* one step, so the two threads interleave at the granularity the          *)
(* interpreter allows.                                                     *)
(*                                                                         *)
(* Time is a tick counter seen only through the differences the code       *)
(* computes: each difference is kept as a timer that saturates at the      *)
(* value it is compared with, which is exact for the comparison.           *)
(***************************************************************************)
EXTENDS Integers, Sequences, FiniteSets, TLC

\* ------------------------------------------------------------- constants
\* video_thread.py:30   self.max_consecutive_failures = 3
max_consecutive_failures == 3

\* ticks of 1/fps (video_thread.py:26), of frame_timeout (:32) and of
\* reconnect_delay (:31): the scale of the model's clock
FrameInterval == 2
FrameTimeout == 2
ReconnectDelay == 2
\* the local counter consecutive_failures and its ghost stop counting here
MaxFail == 5

\* video_thread.py:20   'resolution': (1280, 720)   (width, height)
Resolution == <<1280, 720>>
\* shapes (rows, cols) a source delivers: the configured one and
\* a smaller one
Shapes == {<<720, 1280>>, <<480, 640>>}

Min(a, b) == IF a < b THEN a ELSE b

Sources == {"none", "camera", "file"}

VARIABLES
    \* ---- VideoThread
    source,                 \* camera_index / video_file: which one is set
    cap,                    \* self.cap: "None", or a capture "open" / "closed"
    running,                \* self.running
    rpc,                    \* position of the run() thread
    spc,                    \* position of the GUI thread inside stop()
    consecutive_failures,   \* local of run()
    initFrom,               \* caller of initialize_capture: "run" / "reconnect"
    sinceFrame,             \* time.time() - self.last_frame_time, saturating
    sinceCur,               \* time.time() - current_time, saturating
    readElapsed,            \* time.time() - start_time, saturating
    sleepElapsed,           \* time slept in reconnect's backoff, saturating
    lastEmit,               \* the last notification emitted
    emitTick,               \* flips at every emit()
    \* ---- history of the acquisition loop (not read by the code)
    failRun,                \* failed frame reads since the last successful one
    lastRead,               \* outcome of the last read_frame_with_timeout
    reconnSinceFail,        \* a reconnect was initiated since the last failed read
    reconnects,             \* the last reconnect(): "none"/"pending"/"ok"/"failed"
    resumed                 \* a frame was emitted after a successful reconnect

VARIABLES
    \* ---- VideoThread, the frame in hand
    frame_shape,            \* local frame of run(): frame.shape[:2], <<>> is None
    \* ---- history
    published,              \* the last frame_ready payload: its shape as
                            \* read and as emitted
    sinceReady,             \* time since the last frame_ready, saturating
    failsSinceReconnect,    \* failed reads since the last successful reconnect
    emitted                 \* notifications emitted so far: "none", "one", "more"

FrameVars == <<frame_shape, published, sinceReady, failsSinceReconnect>>

videoVars == <<source, cap, running, rpc, spc, consecutive_failures, initFrom,
               sinceFrame, sinceCur, readElapsed, sleepElapsed, lastEmit,
               emitTick, failRun, lastRead, reconnSinceFail, reconnects,
               resumed, FrameVars, emitted>>

VARIABLES
    \* ---- RelayController
    serial,                 \* self.serial: "None", or a handle "open" / "closed"
    is_connected_flag,      \* self.is_connected_flag
    connecting,             \* self._connecting
    stack,                  \* per caller: the frames of its call, innermost last
    ret,                    \* per caller: the value its last call returned
    \* ---- history of each caller's current (or last) API call
    call                    \* [op, pre, writes, connects, opens, established]

VARIABLES
    wire,                   \* the byte frames handed to serial.write() so far
    relay_enabled,          \* VideoApp.relay_enabled
    \* ---- history of the defect being handled by process_defects()
    defect_event            \* [maintained, triggers, mark]

VARIABLES
    \* ---- RelayController, continuous test
    test_mode,              \* self.test_mode
    test_thread,            \* self.test_thread: 0 is None, else the thread
    tpc,                    \* per test thread: where it is
    tElapsed,               \* per test thread: time spent in its write or sleep
    testElapsed,            \* per test thread: time since its start_time
    joinElapsed,            \* time the caller of stop_test() has been in join()
    \* ---- history
    writesAfterStop         \* after stop_test() returned a test thread has
                            \* 1: called turn_on() or turn_off(), 2: written

testVars == <<test_mode, test_thread, tpc, tElapsed, testElapsed, joinElapsed,
              writesAfterStop>>

\* what a call of the link leaves alone besides the wire
linkExtra == <<relay_enabled, defect_event, testVars>>

relayVars == <<serial, is_connected_flag, connecting, stack, ret, call, wire,
               linkExtra>>

VARIABLES
    \* ---- DetectionEngine
    standard_angle,         \* self.standard_angle
    tolerance,              \* self.tolerance
    min_defect_angle,       \* self.min_defect_angle
    max_defect_angle,       \* self.max_defect_angle
    defect_image_count,     \* self.defect_image_count
    files,                  \* defect_images/defect_*.png: [name, mtime]
    clock,                  \* the wall clock in seconds, as strftime shows it
    \* ---- history of the last call of the engine
    lastCall                \* [op, arg, result, defects, before,
                            \*  evicted, saved]

engineVars == <<standard_angle, tolerance, min_defect_angle, max_defect_angle,
                defect_image_count, files, clock, lastCall>>

VARIABLES
    \* ---- VideoApp
    detection_enabled,          \* self.detection_enabled
    roi,                        \* video_widget.roi_selected and the rectangle
    sinceDetection,             \* time since self.last_detection_time
    sinceDefect,                \* time since self.last_defect_time
    defect_count_this_second,   \* self.defect_count_this_second
    \* ---- history
    windowAccepted,             \* defects accepted less than 1.0 s after
                                \* last_defect_time
    lastFrame                   \* what process_frame() did with the last frame

VARIABLES
    \* ---- VideoApp, the wall clock and the fps timer; followed where
    \* update_fps() is
    wallPhase,                  \* ticks since int(time.time()) last changed
    second_changed,             \* int(time.time()) != self.current_second
    sinceFps,                   \* time since update_fps() last ran
    \* ---- history
    sinceRun,                   \* time since the last detection run began
    capReached                  \* defect_count_this_second has reached the
                                \* cap since last_defect_time was set
                                \* (followed where update_fps() is)

wallVars == <<wallPhase, second_changed, sinceFps>>
fpsVars == <<wallVars, sinceRun, capReached>>

coordVars == <<detection_enabled, roi, sinceDetection, sinceDefect,
               defect_count_this_second, windowAccepted, lastFrame, fpsVars>>

nonVideoVars == <<relayVars, engineVars, coordVars>>
nonRelayVars == <<videoVars, engineVars, coordVars>>
nonEngineVars == <<videoVars, relayVars, coordVars>>
nonCoordVars == <<videoVars, relayVars, engineVars>>

vars == <<videoVars, relayVars, engineVars, coordVars>>

\* ---------------------------------------------------------- VideoThread
\* VideoThread.__init__ (and the source chosen by the caller before start())
VideoInit ==
    /\ source \in Sources
    /\ cap = "None"
    /\ running = FALSE
    /\ rpc = "idle"
    /\ spc = "none"
    /\ consecutive_failures = 0
    /\ initFrom = "run"
    /\ sinceFrame = FrameInterval       \* last_frame_time = 0: long ago
    /\ sinceCur = 0
    /\ readElapsed = 0
    /\ sleepElapsed = 0
    /\ lastEmit = "none"
    /\ emitTick = 0
    /\ failRun = 0
    /\ lastRead = "none"
    /\ reconnSinceFail = FALSE
    /\ reconnects = "none"
    /\ resumed = FALSE
    /\ frame_shape = <<>>
    /\ published = [read |-> <<>>, shape |-> <<>>]
    /\ sinceReady = FrameInterval       \* no frame_ready so far
    /\ failsSinceReconnect = 0
    /\ emitted = "none"

\* signal.emit(kind)
Emit(kind) ==
    /\ lastEmit' = kind
    /\ emitTick' = 1 - emitTick
    /\ emitted' = IF emitted = "none" THEN "one" ELSE "more"

NoEmit == UNCHANGED <<lastEmit, emitTick, emitted>>

ReadLabels == {"rf_loop", "rf_read"}
InLoopLabels == {"r_while", "r_pace", "rf_loop", "rf_read", "r_ok", "r_fail"}
ReconnectLabels == {"rc_check", "rc_release", "rc_clear", "rc_sleep", "rc_result"}

History == <<failRun, lastRead, reconnSinceFail, reconnects, resumed>>
Timers == <<sinceFrame, sinceCur, readElapsed, sleepElapsed>>

\* QThread.start(): the thread begins run()
Start ==
    /\ rpc = "idle"
    /\ rpc' = "r_check_src"
    /\ UNCHANGED <<source, cap, running, spc, consecutive_failures, initFrom,
                   Timers, History>>
    /\ NoEmit
    /\ UNCHANGED FrameVars
    /\ UNCHANGED nonVideoVars

\* run(), lines 44-49
RunCheckSource ==
    /\ rpc = "r_check_src"
    /\ IF source = "none"
       THEN /\ Emit("no_source")
            /\ rpc' = "done"
            /\ UNCHANGED initFrom
       ELSE /\ NoEmit
            /\ rpc' = "ic_open"
            /\ initFrom' = "run"
    /\ UNCHANGED <<source, cap, running, spc, consecutive_failures, Timers, History>>
    /\ UNCHANGED FrameVars
    /\ UNCHANGED nonVideoVars

\* initialize_capture(), lines 98 / 103: self.cap = cv2.VideoCapture(...)
\* The device decides whether the new capture is opened.
InitCaptureOpen ==
    /\ rpc = "ic_open"
    /\ \E opened \in BOOLEAN : cap' = IF opened THEN "open" ELSE "closed"
    /\ rpc' = "ic_check"
    /\ UNCHANGED <<source, running, spc, consecutive_failures, initFrom,
                   Timers, History>>
    /\ NoEmit
    /\ UNCHANGED FrameVars
    /\ UNCHANGED nonVideoVars

\* initialize_capture(), lines 99-108: self.cap.isOpened(); a capture that is
\* not opened, or self.cap set to None meanwhile (AttributeError), raises into
\* the handler at line 110.  apply_camera_settings() (lines 114-141) only
\* configures the device and swallows its own errors.
InitCaptureCheck ==
    /\ rpc = "ic_check"
    /\ rpc' = IF cap = "open"
              THEN (IF initFrom = "run" THEN "r_check_cap" ELSE "rc_result")
              ELSE "ic_except"
    /\ UNCHANGED <<source, cap, running, spc, consecutive_failures, initFrom,
                   Timers, History>>
    /\ NoEmit
    /\ UNCHANGED FrameVars
    /\ UNCHANGED nonVideoVars

\* the same with the capture that failed to open kept in self.cap
InitCaptureExceptKeepsCap ==
    /\ rpc = "ic_except"
    /\ rpc' = IF initFrom = "run" THEN "r_check_cap" ELSE "rc_result"
    /\ UNCHANGED <<source, cap, running, spc, consecutive_failures, initFrom,
                   Timers, History>>
    /\ NoEmit
    /\ UNCHANGED FrameVars
    /\ UNCHANGED nonVideoVars

\* initialize_capture(), lines 110-112: self.cap = None
InitCaptureExcept ==
    /\ rpc = "ic_except"
    /\ cap' = "None"
    /\ rpc' = IF initFrom = "run" THEN "r_check_cap" ELSE "rc_result"
    /\ UNCHANGED <<source, running, spc, consecutive_failures, initFrom,
                   Timers, History>>
    /\ NoEmit
    /\ UNCHANGED FrameVars
    /\ UNCHANGED nonVideoVars

\* run(), lines 50-51 and 91-92: no capture, the loop is never entered
RunCheckCap ==
    /\ rpc = "r_check_cap"
    /\ IF cap = "open"
       THEN /\ rpc' = "r_set_running"
            /\ NoEmit
       ELSE /\ Emit("error_starting")
            /\ rpc' = "done"
    /\ UNCHANGED <<source, cap, running, spc, consecutive_failures, initFrom,
                   Timers, History>>
    /\ UNCHANGED FrameVars
    /\ UNCHANGED nonVideoVars

\* run(), lines 53-54
RunSetRunning ==
    /\ rpc = "r_set_running"
    /\ running' = TRUE
    /\ consecutive_failures' = 0
    /\ rpc' = "r_while"
    /\ UNCHANGED <<source, cap, spc, initFrom, Timers, History>>
    /\ NoEmit
    /\ UNCHANGED FrameVars
    /\ UNCHANGED nonVideoVars

\* run(), line 56: while self.running
RunWhile ==
    /\ rpc = "r_while"
    /\ rpc' = IF running THEN "r_pace" ELSE "done"
    /\ UNCHANGED <<source, cap, running, spc, consecutive_failures, initFrom,
                   Timers, History>>
    /\ NoEmit
    /\ UNCHANGED FrameVars
    /\ UNCHANGED nonVideoVars

\* run(), lines 59-65 and read_frame_with_timeout() line 147: pacing, then
\* the read begins (current_time and start_time are taken)
RunPace ==
    /\ rpc = "r_pace"
    /\ IF sinceFrame < FrameInterval
       THEN /\ rpc' = "r_while"
            /\ UNCHANGED <<sinceCur, readElapsed>>
       ELSE /\ rpc' = "rf_loop"
            /\ sinceCur' = 0
            /\ readElapsed' = 0
    /\ UNCHANGED <<source, cap, running, spc, consecutive_failures, initFrom,
                   sinceFrame, sleepElapsed, History>>
    /\ NoEmit
    /\ UNCHANGED FrameVars
    /\ UNCHANGED nonVideoVars

\* read_frame_with_timeout(), lines 149 and 155: the timeout loop's test
ReadFrameLoop ==
    /\ rpc = "rf_loop"
    /\ IF readElapsed < FrameTimeout
       THEN /\ rpc' = "rf_read"
            /\ UNCHANGED <<failRun, lastRead, reconnSinceFail, frame_shape,
                           failsSinceReconnect>>
       ELSE /\ rpc' = "r_fail"
            /\ failRun' = Min(failRun + 1, MaxFail)
            /\ lastRead' = "timeout"
            /\ reconnSinceFail' = FALSE
            /\ frame_shape' = <<>>
            /\ failsSinceReconnect' = Min(failsSinceReconnect + 1, max_consecutive_failures)
    /\ UNCHANGED <<source, cap, running, spc, consecutive_failures, initFrom,
                   Timers, reconnects, resumed, published, sinceReady>>
    /\ NoEmit
    /\ UNCHANGED nonVideoVars

\* read_frame_with_timeout(), lines 150-159: self.cap.read().  self.cap None
\* raises AttributeError, the device may raise; a released capture and a
\* device with no frame return ret = False.
ReadFrameRead ==
    /\ rpc = "rf_read"
    /\ \E dev \in {"frame", "noframe", "raise"}, shape \in Shapes :
         LET res == IF cap = "None" THEN "raise"
                    ELSE IF cap = "closed" THEN "noframe"
                    ELSE dev
         IN  CASE res = "frame" ->
                    /\ rpc' = "r_ok"
                    /\ failRun' = 0
                    /\ lastRead' = "ok"
                    /\ frame_shape' = shape
                    /\ UNCHANGED <<reconnSinceFail, failsSinceReconnect>>
               [] res = "noframe" ->
                    /\ rpc' = "rf_loop"
                    /\ UNCHANGED <<failRun, lastRead, reconnSinceFail, frame_shape,
                                   failsSinceReconnect>>
               [] OTHER ->
                    /\ rpc' = "r_fail"
                    /\ failRun' = Min(failRun + 1, MaxFail)
                    /\ lastRead' = "raise"
                    /\ reconnSinceFail' = FALSE
                    /\ frame_shape' = <<>>
                    /\ failsSinceReconnect' = Min(failsSinceReconnect + 1, max_consecutive_failures)
    /\ UNCHANGED <<source, cap, running, spc, consecutive_failures, initFrom,
                   Timers, reconnects, resumed, published, sinceReady>>
    /\ NoEmit
    /\ UNCHANGED nonVideoVars

\* x[::-1] of a pair
Reversed(x) == <<x[2], x[1]>>

\* the same keeping the order of dsize
ResizeTransposed(shape, dsize) == dsize

\* cv2.resize(src, dsize): dsize is (width, height), the result has
\* height rows and width columns
Resize(shape, dsize) == <<dsize[2], dsize[1]>>

\* run(), lines 67-75 and 89
RunReadOk ==
    /\ rpc = "r_ok"
    /\ consecutive_failures' = 0
    /\ sinceFrame' = sinceCur           \* self.last_frame_time = current_time
    /\ sinceCur' = 0
    /\ readElapsed' = 0
    /\ frame_shape' = IF frame_shape # Reversed(Resolution)
                THEN Resize(frame_shape, Resolution) ELSE frame_shape
    /\ published' = [read |-> frame_shape, shape |-> frame_shape']
    /\ sinceReady' = 0
    /\ Emit("frame")
    /\ rpc' = "r_while"
    /\ resumed' = (resumed \/ reconnects = "ok")
    /\ UNCHANGED <<source, cap, running, spc, initFrom, sleepElapsed,
                   failRun, lastRead, reconnSinceFail, reconnects,
                   failsSinceReconnect>>
    /\ UNCHANGED nonVideoVars

\* the same with the threshold test off by one
RunReadFailOffByOne ==
    /\ rpc = "r_fail"
    /\ consecutive_failures' = Min(consecutive_failures + 1, MaxFail)
    /\ rpc' = IF consecutive_failures + 1 > max_consecutive_failures
              THEN "r_except" ELSE "r_while"
    /\ sinceCur' = 0
    /\ readElapsed' = 0
    /\ UNCHANGED <<source, cap, running, spc, initFrom, sinceFrame,
                   sleepElapsed, History>>
    /\ NoEmit
    /\ UNCHANGED FrameVars
    /\ UNCHANGED nonVideoVars

\* run(), lines 77-79 and 89
RunReadFail ==
    /\ rpc = "r_fail"
    /\ consecutive_failures' = Min(consecutive_failures + 1, MaxFail)
    /\ rpc' = IF consecutive_failures + 1 >= max_consecutive_failures
              THEN "r_except" ELSE "r_while"
    /\ sinceCur' = 0
    /\ readElapsed' = 0
    /\ UNCHANGED <<source, cap, running, spc, initFrom, sinceFrame,
                   sleepElapsed, History>>
    /\ NoEmit
    /\ UNCHANGED FrameVars
    /\ UNCHANGED nonVideoVars

\* run(), lines 81-85: "Connection lost. Attempting to reconnect..."
RunExcept ==
    /\ rpc = "r_except"
    /\ Emit("conn_lost")
    /\ rpc' = "rc_check"
    /\ reconnSinceFail' = TRUE
    /\ reconnects' = "pending"
    /\ UNCHANGED <<source, cap, running, spc, consecutive_failures, initFrom,
                   Timers, failRun, lastRead, resumed>>
    /\ UNCHANGED FrameVars
    /\ UNCHANGED nonVideoVars

\* the same with the capture kept over the backoff
ReconnectCheckKeepsCapture ==
    /\ rpc = "rc_check"
    /\ rpc' = "rc_sleep"
    /\ UNCHANGED <<source, cap, running, spc, consecutive_failures, initFrom,
                   Timers, History>>
    /\ NoEmit
    /\ UNCHANGED FrameVars
    /\ UNCHANGED nonVideoVars

\* reconnect(), line 167: if self.cap is not None
ReconnectCheck ==
    /\ rpc = "rc_check"
    /\ rpc' = IF cap # "None" THEN "rc_release" ELSE "rc_sleep"
    /\ UNCHANGED <<source, cap, running, spc, consecutive_failures, initFrom,
                   Timers, History>>
    /\ NoEmit
    /\ UNCHANGED FrameVars
    /\ UNCHANGED nonVideoVars

\* reconnect(), lines 168 and 184-187: self.cap.release(); self.cap set to
\* None meanwhile raises AttributeError: "Reconnection failed: ..."
ReconnectRelease ==
    /\ rpc = "rc_release"
    /\ IF cap = "None"
       THEN /\ Emit("reconnect_exc")
            /\ rpc' = "done"
            /\ reconnects' = "failed"
            /\ UNCHANGED cap
       ELSE /\ cap' = "closed"
            /\ rpc' = "rc_clear"
            /\ NoEmit
            /\ UNCHANGED reconnects
    /\ UNCHANGED <<source, running, spc, consecutive_failures, initFrom,
                   Timers, failRun, lastRead, reconnSinceFail, resumed>>
    /\ UNCHANGED FrameVars
    /\ UNCHANGED nonVideoVars

\* reconnect(), line 169: self.cap = None
ReconnectClear ==
    /\ rpc = "rc_clear"
    /\ cap' = "None"
    /\ rpc' = "rc_sleep"
    /\ UNCHANGED <<source, running, spc, consecutive_failures, initFrom,
                   Timers, History>>
    /\ NoEmit
    /\ UNCHANGED FrameVars
    /\ UNCHANGED nonVideoVars

\* reconnect(), lines 172-175: the backoff has elapsed
ReconnectSleep ==
    /\ rpc = "rc_sleep"
    /\ sleepElapsed >= ReconnectDelay
    /\ sleepElapsed' = 0
    /\ rpc' = "ic_open"
    /\ initFrom' = "reconnect"
    /\ UNCHANGED <<source, cap, running, spc, consecutive_failures,
                   sinceFrame, sinceCur, readElapsed, History>>
    /\ NoEmit
    /\ UNCHANGED FrameVars
    /\ UNCHANGED nonVideoVars

\* the same with a failed reconnect going round the loop again
ReconnectResultRetry ==
    /\ rpc = "rc_result"
    /\ IF cap = "open"
       THEN /\ Emit("reconnected")
            /\ reconnects' = "ok"
            /\ failsSinceReconnect' = 0
       ELSE /\ Emit("reconnect_failed")
            /\ reconnects' = "failed"
            /\ UNCHANGED failsSinceReconnect
    /\ rpc' = "r_while"
    /\ UNCHANGED <<source, cap, running, spc, consecutive_failures, initFrom,
                   Timers, failRun, lastRead, reconnSinceFail, resumed,
                   frame_shape, published, sinceReady>>
    /\ UNCHANGED nonVideoVars

\* reconnect(), lines 177-182, and run() lines 85-86
ReconnectResult ==
    /\ rpc = "rc_result"
    /\ IF cap = "open"
       THEN /\ Emit("reconnected")
            /\ reconnects' = "ok"
            /\ rpc' = "r_while"
            /\ failsSinceReconnect' = 0
       ELSE /\ Emit("reconnect_failed")
            /\ reconnects' = "failed"
            /\ rpc' = "done"
            /\ UNCHANGED failsSinceReconnect
    /\ UNCHANGED <<source, cap, running, spc, consecutive_failures, initFrom,
                   Timers, failRun, lastRead, reconnSinceFail, resumed,
                   frame_shape, published, sinceReady>>
    /\ UNCHANGED nonVideoVars

\* stop() is called (any time after start())
StopCall ==
    /\ rpc # "idle"
    /\ spc = "none"
    /\ spc' = "s_running"
    /\ UNCHANGED <<source, cap, running, rpc, consecutive_failures, initFrom,
                   Timers, History>>
    /\ NoEmit
    /\ UNCHANGED FrameVars
    /\ UNCHANGED nonVideoVars

\* stop(), line 191
StopSetRunning ==
    /\ spc = "s_running"
    /\ running' = FALSE
    /\ spc' = "s_check"
    /\ UNCHANGED <<source, cap, rpc, consecutive_failures, initFrom,
                   Timers, History>>
    /\ NoEmit
    /\ UNCHANGED FrameVars
    /\ UNCHANGED nonVideoVars

\* stop(), line 194
StopCheck ==
    /\ spc = "s_check"
    /\ spc' = IF cap # "None" THEN "s_release" ELSE "s_wait"
    /\ UNCHANGED <<source, cap, running, rpc, consecutive_failures, initFrom,
                   Timers, History>>
    /\ NoEmit
    /\ UNCHANGED FrameVars
    /\ UNCHANGED nonVideoVars

\* stop(), line 195: self.cap.release(); self.cap set to None meanwhile by
\* reconnect() raises AttributeError out of stop()
StopRelease ==
    /\ spc = "s_release"
    /\ IF cap = "None"
       THEN /\ spc' = "raised"
            /\ UNCHANGED cap
       ELSE /\ cap' = "closed"
            /\ spc' = "s_clear"
    /\ UNCHANGED <<source, running, rpc, consecutive_failures, initFrom,
                   Timers, History>>
    /\ NoEmit
    /\ UNCHANGED FrameVars
    /\ UNCHANGED nonVideoVars

\* stop(), line 196
StopClear ==
    /\ spc = "s_clear"
    /\ cap' = "None"
    /\ spc' = "s_wait"
    /\ UNCHANGED <<source, running, rpc, consecutive_failures, initFrom,
                   Timers, History>>
    /\ NoEmit
    /\ UNCHANGED FrameVars
    /\ UNCHANGED nonVideoVars

\* the same without the join
StopWaitNoJoin ==
    /\ spc = "s_wait"
    /\ spc' = "returned"
    /\ UNCHANGED <<source, cap, running, rpc, consecutive_failures, initFrom,
                   Timers, History>>
    /\ NoEmit
    /\ UNCHANGED FrameVars
    /\ UNCHANGED nonVideoVars

\* stop(), line 199: self.wait() returns when run() has returned
StopWait ==
    /\ spc = "s_wait"
    /\ rpc = "done"
    /\ spc' = "returned"
    /\ UNCHANGED <<source, cap, running, rpc, consecutive_failures, initFrom,
                   Timers, History>>
    /\ NoEmit
    /\ UNCHANGED FrameVars
    /\ UNCHANGED nonVideoVars

\* the clock advances by one tick
Tick ==
    /\ rpc \notin {"idle", "done"}
    /\ sinceFrame' = Min(sinceFrame + 1, FrameInterval)
    /\ sinceCur' = IF rpc \in ReadLabels \cup {"r_ok", "r_fail"}
                   THEN Min(sinceCur + 1, FrameInterval) ELSE sinceCur
    /\ readElapsed' = IF rpc \in ReadLabels
                      THEN Min(readElapsed + 1, FrameTimeout) ELSE readElapsed
    /\ sleepElapsed' = IF rpc = "rc_sleep"
                       THEN Min(sleepElapsed + 1, ReconnectDelay) ELSE sleepElapsed
    /\ sinceReady' = Min(sinceReady + 1, FrameInterval)
    /\ UNCHANGED <<source, cap, running, rpc, spc, consecutive_failures,
                   initFrom, History, frame_shape, published, failsSinceReconnect>>
    /\ NoEmit
    /\ UNCHANGED nonVideoVars

RunStep ==
    \/ RunCheckSource
    \/ InitCaptureOpen
    \/ InitCaptureCheck
    \/ InitCaptureExcept
    \/ RunCheckCap
    \/ RunSetRunning
    \/ RunWhile
    \/ RunPace
    \/ ReadFrameLoop
    \/ ReadFrameRead
    \/ RunReadOk
    \/ RunReadFail
    \/ RunExcept
    \/ ReconnectCheck
    \/ ReconnectRelease
    \/ ReconnectClear
    \/ ReconnectSleep
    \/ ReconnectResult

StopStep ==
    \/ StopSetRunning
    \/ StopCheck
    \/ StopRelease
    \/ StopClear
    \/ StopWait

VideoNext ==
    \/ Start
    \/ RunStep
    \/ StopCall
    \/ StopStep
    \/ Tick

\* the thread runs and stop() is not called
StartNext ==
    \/ Start
    \/ RunStep
    \/ Tick


\* -------------------------------------------------------- RelayController
\* The GUI thread is the caller of the application; a second caller exists
\* only where two concurrent callers are considered.
Callers == {"gui", "aux"}

\* the wire protocol: turn_on 0xA0 0x01 0x01 0xA2, turn_off 0xA0 0x01 0x00 0xA1
Commands == {"on", "off"}

\* the byte frames of the four places that write: turn_on() line 195,
\* turn_off() line 216, _test_connection() line 124 and
\* check_connection_health() line 367
OnCommand == <<160, 1, 1, 162>>
OffCommand == <<160, 1, 0, 161>>
TestCommand == <<160, 1, 0, 161>>
\* a probe frame with the state byte of the on command and the off checksum
ProbeCommandBadSum == <<160, 1, 1, 161>>
ProbeCommand == <<160, 1, 0, 161>>
CommandBytes(cmd) == IF cmd = "on" THEN OnCommand ELSE OffCommand

\* serial.write(frame) on the handle, when there is one to write to
Sent(frame) == wire' = IF serial = "open" THEN wire \cup {frame} ELSE wire

NoCall == [op |-> "none", pre |-> FALSE, writes |-> <<>>, connects |-> 0,
           opens |-> 0, established |-> FALSE, offBeforeClose |-> FALSE,
           cycles |-> 0, i |-> 0]

NoDefect == [maintained |-> "none", triggers |-> 0, mark |-> 0,
             log |-> "none", appended |-> FALSE]

\* the test threads followed: a continuous test is started when the thread
\* of the one before has ended
TestThreads == {1}
\* the test threads there can be when a continuous test is started while
\* the thread of the one before is alive
TestSlots == {1, 2}

\* RelayController.__init__
RelayInit ==
    /\ serial = "None"
    /\ is_connected_flag = FALSE
    /\ connecting = FALSE
    /\ stack = [t \in Callers |-> <<>>]
    /\ ret = [t \in Callers |-> FALSE]
    /\ call = [t \in Callers |-> NoCall]
    /\ wire = {}
    /\ test_mode = FALSE
    /\ test_thread = 0
    /\ tpc = [k \in TestSlots |-> "none"]
    /\ tElapsed = [k \in TestSlots |-> 0]
    /\ testElapsed = [k \in TestSlots |-> 0]
    /\ joinElapsed = 0
    /\ writesAfterStop = 0
    /\ defect_event = NoDefect

\* the controller after the connect() of the GUI thread has succeeded
RelayInitConnected ==
    /\ serial = "open"
    /\ is_connected_flag = TRUE
    /\ connecting = FALSE
    /\ stack = [t \in Callers |-> <<>>]
    /\ ret = [t \in Callers |-> t = "gui"]
    /\ call = [t \in Callers |->
          IF t = "gui"
          THEN [NoCall EXCEPT !.op = "connect", !.connects = 1, !.opens = 1,
                              !.writes = << <<"off", TRUE>> >>,
                              !.established = TRUE]
          ELSE NoCall]
    /\ wire = {TestCommand}
    /\ test_mode = FALSE
    /\ test_thread = 0
    /\ tpc = [k \in TestSlots |-> "none"]
    /\ tElapsed = [k \in TestSlots |-> 0]
    /\ testElapsed = [k \in TestSlots |-> 0]
    /\ joinElapsed = 0
    /\ writesAfterStop = 0
    /\ defect_event = NoDefect

Top(t) == stack[t][Len(stack[t])]
At(t, l) == stack[t] # <<>> /\ Top(t) = l
Pop(t) == SubSeq(stack[t], 1, Len(stack[t]) - 1)
Idle(t) == stack[t] = <<>>

\* the frame on top moves to label l
Goto(t, l) == stack' = [stack EXCEPT ![t] = Pop(t) \o <<l>>]
\* the frame on top calls a function and continues at cont when it returns
Invoke(t, cont, entry) == stack' = [stack EXCEPT ![t] = Pop(t) \o <<cont, entry>>]
\* the frame on top returns v
Return(t, v) ==
    /\ stack' = [stack EXCEPT ![t] = Pop(t)]
    /\ ret' = [ret EXCEPT ![t] = v]

\* is_connected(), lines 172-183: its result, and the flag it leaves
IsConnectedResult == is_connected_flag /\ serial = "open"
IsConnectedFlag ==
    IF is_connected_flag /\ serial = "closed" THEN FALSE ELSE is_connected_flag

Logged(t, cmd, ok) ==
    call' = [call EXCEPT ![t].writes = Append(@, <<cmd, ok>>)]

\* the caller t begins an API call
Begin(t, opname, entry) ==
    /\ Idle(t)
    /\ stack' = [stack EXCEPT ![t] = <<entry>>]
    /\ call' = [call EXCEPT ![t] =
           [NoCall EXCEPT !.op = opname, !.pre = IsConnectedResult,
                          !.connects = IF opname = "connect" THEN 1 ELSE 0]]
    /\ UNCHANGED <<serial, is_connected_flag, connecting, ret>>
    /\ UNCHANGED <<wire, linkExtra, nonRelayVars>>

CallConnect(t) == Begin(t, "connect", "cn_guard")
CallDisconnect(t) == Begin(t, "disconnect", "dc_test")
CallTurnOn(t) == Begin(t, "turn_on", "on_chk")
CallTurnOff(t) == Begin(t, "turn_off", "off_chk")
CallTrigger(t) == Begin(t, "trigger", "tr_chk")
CallMaintain(t) == Begin(t, "maintain", "mt_chk")

\* ---- connect(), lines 37-96
\* the same without the test of lines 48-50
ConnectGuardNoShortcut(t) ==
    /\ At(t, "cn_guard")
    /\ IF connecting
       THEN Return(t, is_connected_flag)
       ELSE Goto(t, "cn_set") /\ UNCHANGED ret
    /\ UNCHANGED <<serial, is_connected_flag, connecting, call>>
    /\ UNCHANGED <<wire, linkExtra, nonRelayVars>>

\* lines 44-50: an attempt in progress, or already connected
ConnectGuard(t) ==
    /\ At(t, "cn_guard")
    /\ IF connecting
       THEN Return(t, is_connected_flag)
       ELSE IF is_connected_flag /\ serial = "open"
       THEN Return(t, TRUE)
       ELSE Goto(t, "cn_set") /\ UNCHANGED ret
    /\ UNCHANGED <<serial, is_connected_flag, connecting, call>>
    /\ UNCHANGED <<wire, linkExtra, nonRelayVars>>

\* line 52: self._connecting = True
ConnectSet(t) ==
    /\ At(t, "cn_set")
    /\ connecting' = TRUE
    /\ Goto(t, "cn_cleanup")
    /\ UNCHANGED <<serial, is_connected_flag, ret, call>>
    /\ UNCHANGED <<wire, linkExtra, nonRelayVars>>

\* lines 56-58: close a handle left open
ConnectCleanup(t) ==
    /\ At(t, "cn_cleanup")
    /\ serial' = IF serial = "open" THEN "closed" ELSE serial
    /\ Goto(t, "cn_release")
    /\ UNCHANGED <<is_connected_flag, connecting, ret, call>>
    /\ UNCHANGED <<wire, linkExtra, nonRelayVars>>

\* line 61 and _force_release_port(), lines 98-116: when the port is listed, a
\* temporary handle is opened and closed; every error is swallowed
ConnectForceRelease(t) ==
    /\ At(t, "cn_release")
    /\ \E listed \in BOOLEAN :
         call' = [call EXCEPT ![t].opens = IF listed THEN @ + 1 ELSE @]
    /\ Goto(t, "cn_open")
    /\ UNCHANGED <<serial, is_connected_flag, connecting, ret>>
    /\ UNCHANGED <<wire, linkExtra, nonRelayVars>>

\* the same with the return of the except clauses not passing through the
\* finally clause
ConnectOpenNoFinally(t) ==
    /\ At(t, "cn_open")
    /\ \E res \in {"opened", "denied", "error"} :
         /\ serial' = IF res = "opened" THEN "open" ELSE serial
         /\ call' = [call EXCEPT ![t].opens = IF res = "denied" THEN @ + 2 ELSE @ + 1]
         /\ IF res = "opened"
            THEN Goto(t, "cn_test") /\ UNCHANGED ret
            ELSE Return(t, FALSE)
    /\ UNCHANGED <<is_connected_flag, connecting>>
    /\ UNCHANGED <<wire, linkExtra, nonRelayVars>>

\* lines 64-72 and 83-94: serial.Serial(...).  It raises when the port cannot
\* be opened; "access denied" tries _force_release_port() once more.
ConnectOpen(t) ==
    /\ At(t, "cn_open")
    /\ \E res \in {"opened", "denied", "error"} :
         /\ serial' = IF res = "opened" THEN "open" ELSE serial
         /\ call' = [call EXCEPT ![t].opens = IF res = "denied" THEN @ + 2 ELSE @ + 1]
         /\ Goto(t, IF res = "opened" THEN "cn_test" ELSE "cn_fin_F")
    /\ UNCHANGED <<is_connected_flag, connecting, ret>>
    /\ UNCHANGED <<wire, linkExtra, nonRelayVars>>

\* what the device has for in_waiting / read() after the validation write:
\* nothing, some bytes, or an error raised by the handle
Echoes == {"none", "bytes", "raise"}

\* _test_connection(), lines 120-135: True when no statement of the try body
\* raised; what was read back is only logged
TestConnection(wrote, echo) == wrote /\ echo # "raise"

\* lines 74-81 and _test_connection(), lines 118-135: the off command is
\* written and the input buffer looked at
ConnectTest(t) ==
    /\ At(t, "cn_test")
    /\ \E wrote \in BOOLEAN, echo \in Echoes :
         IF serial # "open"
         THEN /\ Invoke(t, "cn_disc_ret", "dc_test")
              /\ UNCHANGED <<is_connected_flag, call>>
         ELSE IF TestConnection(wrote, echo)
         THEN /\ is_connected_flag' = TRUE
              /\ call' = [call EXCEPT ![t].writes = Append(@, <<"off", TRUE>>),
                                      ![t].established = TRUE]
              /\ Goto(t, "cn_fin_T")
         ELSE /\ Logged(t, "off", wrote)
              /\ Invoke(t, "cn_disc_ret", "dc_test")
              /\ UNCHANGED is_connected_flag
    /\ UNCHANGED <<serial, connecting, ret>>
    /\ Sent(TestCommand)
    /\ UNCHANGED <<linkExtra, nonRelayVars>>

\* lines 79-81: disconnect() has returned
ConnectDisconnected(t) ==
    /\ At(t, "cn_disc_ret")
    /\ Goto(t, "cn_fin_F")
    /\ UNCHANGED <<serial, is_connected_flag, connecting, ret, call>>
    /\ UNCHANGED <<wire, linkExtra, nonRelayVars>>

\* lines 95-96: finally: self._connecting = False, then the return
ConnectFinally(t) ==
    /\ At(t, "cn_fin_T") \/ At(t, "cn_fin_F")
    /\ connecting' = FALSE
    /\ Return(t, Top(t) = "cn_fin_T")
    /\ UNCHANGED <<serial, is_connected_flag, call>>
    /\ UNCHANGED <<wire, linkExtra, nonRelayVars>>

ConnectStep(t) ==
    \/ ConnectGuard(t)
    \/ ConnectSet(t)
    \/ ConnectCleanup(t)
    \/ ConnectForceRelease(t)
    \/ ConnectOpen(t)
    \/ ConnectTest(t)
    \/ ConnectDisconnected(t)
    \/ ConnectFinally(t)

\* ---- disconnect(), lines 137-170.  Every statement is inside a try whose
\* except clause resets the flag and the handle, so no path raises.
\* lines 141-142: stop a running continuous test
DisconnectTest(t) ==
    /\ At(t, "dc_test")
    /\ IF test_mode
       THEN Invoke(t, "dc_off", "st_set")
       ELSE Goto(t, "dc_off")
    /\ UNCHANGED <<serial, is_connected_flag, connecting, ret, call>>
    /\ UNCHANGED <<wire, linkExtra, nonRelayVars>>

\* the same with the relay left as it is
DisconnectOffSkipped(t) ==
    /\ At(t, "dc_off")
    /\ Goto(t, "dc_close")
    /\ UNCHANGED <<serial, is_connected_flag, connecting, ret, call>>
    /\ UNCHANGED <<wire, linkExtra, nonRelayVars>>

\* lines 145-150: turn the relay off when the handle is open
DisconnectOff(t) ==
    /\ At(t, "dc_off")
    /\ IF serial = "open"
       THEN Invoke(t, "dc_close", "off_chk")
       ELSE Goto(t, "dc_close")
    /\ UNCHANGED <<serial, is_connected_flag, connecting, ret, call>>
    /\ UNCHANGED <<wire, linkExtra, nonRelayVars>>

\* lines 153-158: close the handle; an error in close() is swallowed
DisconnectClose(t) ==
    /\ At(t, "dc_close")
    /\ \E closed \in BOOLEAN :
         serial' = IF serial = "open" /\ closed THEN "closed" ELSE serial
    /\ call' = [call EXCEPT ![t].offBeforeClose =
           /\ serial = "open"
           /\ \E i \in DOMAIN call[t].writes : call[t].writes[i][1] = "off"]
    /\ Goto(t, "dc_reset")
    /\ UNCHANGED <<is_connected_flag, connecting, ret>>
    /\ UNCHANGED <<wire, linkExtra, nonRelayVars>>

\* lines 161-162
DisconnectReset(t) ==
    /\ At(t, "dc_reset")
    /\ is_connected_flag' = FALSE
    /\ serial' = "None"
    /\ Return(t, FALSE)
    /\ UNCHANGED <<connecting, call>>
    /\ UNCHANGED <<wire, linkExtra, nonRelayVars>>

DisconnectStep(t) ==
    \/ DisconnectTest(t)
    \/ DisconnectOff(t)
    \/ DisconnectClose(t)
    \/ DisconnectReset(t)

\* ---- turn_on(), lines 185-204, and turn_off(), lines 206-225
\* lines 191-193 / 212-214
TurnCheck(t, cmd) ==
    /\ At(t, cmd \o "_chk")
    /\ is_connected_flag' = IsConnectedFlag
    /\ IF IsConnectedResult
       THEN Goto(t, cmd \o "_wr") /\ UNCHANGED ret
       ELSE Return(t, FALSE)
    /\ UNCHANGED <<serial, connecting, call>>
    /\ UNCHANGED <<wire, linkExtra, nonRelayVars>>

\* lines 195-204 / 216-225: the write; it raises on a handle that is gone or
\* closed, or when the device does not take it
TurnWrite(t, cmd) ==
    /\ At(t, cmd \o "_wr")
    /\ \E wrote \in BOOLEAN :
         IF serial = "open"
         THEN Logged(t, cmd, wrote) /\ Return(t, wrote)
         ELSE UNCHANGED call /\ Return(t, FALSE)
    /\ UNCHANGED <<serial, is_connected_flag, connecting>>
    /\ Sent(CommandBytes(cmd))
    /\ UNCHANGED <<linkExtra, nonRelayVars>>

TurnOnStep(t) == TurnCheck(t, "on") \/ TurnWrite(t, "on")
TurnOffStep(t) == TurnCheck(t, "off") \/ TurnWrite(t, "off")

\* ---- trigger(), lines 227-250
\* lines 235-240
TriggerCheck(t) ==
    /\ At(t, "tr_chk")
    /\ is_connected_flag' = IsConnectedFlag
    /\ IF IsConnectedResult
       THEN Invoke(t, "tr_on_ret", "on_chk") /\ UNCHANGED ret
       ELSE Return(t, FALSE)
    /\ UNCHANGED <<serial, connecting, call>>
    /\ UNCHANGED <<wire, linkExtra, nonRelayVars>>

\* the same with the off command sent whatever turn_on() returned
TriggerOnAlwaysOff(t) ==
    /\ At(t, "tr_on_ret")
    /\ Invoke(t, "tr_off_ret", "off_chk")
    /\ UNCHANGED <<serial, is_connected_flag, connecting, ret, call>>
    /\ UNCHANGED <<wire, linkExtra, nonRelayVars>>

\* lines 240-242 and 245-247: turn_on() has returned; sleep(duration)
TriggerOn(t) ==
    /\ At(t, "tr_on_ret")
    /\ IF ret[t]
       THEN Invoke(t, "tr_off_ret", "off_chk") /\ UNCHANGED ret
       ELSE Return(t, FALSE)
    /\ UNCHANGED <<serial, is_connected_flag, connecting, call>>
    /\ UNCHANGED <<wire, linkExtra, nonRelayVars>>

\* lines 242-244: turn_off() has returned; its result is not looked at
TriggerOff(t) ==
    /\ At(t, "tr_off_ret")
    /\ Return(t, TRUE)
    /\ UNCHANGED <<serial, is_connected_flag, connecting, call>>
    /\ UNCHANGED <<wire, linkExtra, nonRelayVars>>

TriggerStep(t) ==
    \/ TriggerCheck(t)
    \/ TriggerOn(t)
    \/ TriggerOff(t)

\* ---- test_relay(), lines 252-284
\* the cycles a test is asked for
MaxCycles == 2

\* test_relay(cycles, on_duration, off_duration) is called
CallTestRelay(t) ==
    /\ Idle(t)
    /\ \E n \in 0 .. MaxCycles :
          call' = [call EXCEPT ![t] =
              [NoCall EXCEPT !.op = "test_relay", !.pre = IsConnectedResult,
                             !.cycles = n]]
    /\ stack' = [stack EXCEPT ![t] = <<"tl_chk">>]
    /\ UNCHANGED <<serial, is_connected_flag, connecting, ret>>
    /\ UNCHANGED <<wire, linkExtra, nonRelayVars>>

\* the same without the test of lines 262-264
TestRelayCheckSkipped(t) ==
    /\ At(t, "tl_chk")
    /\ Goto(t, "tl_for")
    /\ UNCHANGED <<serial, is_connected_flag, connecting, ret, call>>
    /\ UNCHANGED <<wire, linkExtra, nonRelayVars>>

\* lines 262-264
TestRelayCheck(t) ==
    /\ At(t, "tl_chk")
    /\ is_connected_flag' = IsConnectedFlag
    /\ IF IsConnectedResult
       THEN Goto(t, "tl_for") /\ UNCHANGED ret
       ELSE Return(t, FALSE)
    /\ UNCHANGED <<serial, connecting, call>>
    /\ UNCHANGED <<wire, linkExtra, nonRelayVars>>

\* lines 268-270 and 279-280: the next cycle calls turn_on(); after the last
\* one True is returned
TestRelayFor(t) ==
    /\ At(t, "tl_for")
    /\ IF call[t].i < call[t].cycles
       THEN /\ Invoke(t, "tl_on_ret", "on_chk")
            /\ call' = [call EXCEPT ![t].i = @ + 1]
            /\ UNCHANGED ret
       ELSE Return(t, TRUE) /\ UNCHANGED call
    /\ UNCHANGED <<serial, is_connected_flag, connecting>>
    /\ UNCHANGED <<wire, linkExtra, nonRelayVars>>

\* lines 270-274: turn_on() has returned; sleep(on_duration), turn_off()
TestRelayOn(t) ==
    /\ At(t, "tl_on_ret")
    /\ IF ret[t]
       THEN Invoke(t, "tl_off_ret", "off_chk") /\ UNCHANGED ret
       ELSE Return(t, FALSE)
    /\ UNCHANGED <<serial, is_connected_flag, connecting, call>>
    /\ UNCHANGED <<wire, linkExtra, nonRelayVars>>

\* the same with the result of turn_off() not looked at
TestRelayOffIgnored(t) ==
    /\ At(t, "tl_off_ret")
    /\ Goto(t, "tl_for")
    /\ UNCHANGED <<serial, is_connected_flag, connecting, ret, call>>
    /\ UNCHANGED <<wire, linkExtra, nonRelayVars>>

\* lines 274-277: turn_off() has returned; sleep(off_duration)
TestRelayOff(t) ==
    /\ At(t, "tl_off_ret")
    /\ IF ret[t]
       THEN Goto(t, "tl_for") /\ UNCHANGED ret
       ELSE Return(t, FALSE)
    /\ UNCHANGED <<serial, is_connected_flag, connecting, call>>
    /\ UNCHANGED <<wire, linkExtra, nonRelayVars>>

\* `return self.connect()`: the frame on top becomes connect()
ReturnConnect(t) ==
    /\ Goto(t, "cn_guard")
    /\ call' = [call EXCEPT ![t].connects = @ + 1]

\* ---- check_connection_health(), lines 350-377
\* lines 353-363
HealthCheck(t) ==
    /\ At(t, "ch_chk")
    /\ IF is_connected_flag /\ serial = "open"
       THEN Goto(t, "ch_probe") /\ UNCHANGED call
       ELSE ReturnConnect(t)
    /\ UNCHANGED <<serial, is_connected_flag, connecting, ret>>
    /\ UNCHANGED <<wire, linkExtra, nonRelayVars>>

\* the same with connect() called after a probe that succeeded as well
HealthProbeAlwaysConnect(t) ==
    /\ At(t, "ch_probe")
    /\ \E wrote \in BOOLEAN :
         /\ stack' = [stack EXCEPT ![t] = Pop(t) \o <<"cn_guard">>]
         /\ call' = [call EXCEPT
               ![t].writes = IF serial = "open"
                             THEN Append(@, <<"off", wrote>>) ELSE @,
               ![t].connects = @ + 1]
         /\ UNCHANGED ret
    /\ UNCHANGED <<serial, is_connected_flag, connecting>>
    /\ Sent(ProbeCommand)
    /\ UNCHANGED <<linkExtra, nonRelayVars>>

\* lines 366-373: the probe writes the off command
HealthProbe(t) ==
    /\ At(t, "ch_probe")
    /\ \E wrote \in BOOLEAN :
         IF serial = "open" /\ wrote
         THEN Logged(t, "off", TRUE) /\ Return(t, TRUE)
         ELSE /\ stack' = [stack EXCEPT ![t] = Pop(t) \o <<"cn_guard">>]
              /\ call' = [call EXCEPT
                    ![t].writes = IF serial = "open"
                                  THEN Append(@, <<"off", FALSE>>) ELSE @,
                    ![t].connects = @ + 1]
              /\ UNCHANGED ret
    /\ UNCHANGED <<serial, is_connected_flag, connecting>>
    /\ Sent(ProbeCommand)
    /\ UNCHANGED <<linkExtra, nonRelayVars>>

HealthStep(t) == HealthCheck(t) \/ HealthProbe(t)

\* ---- maintain_connection(), lines 379-392
MaintainStep(t) ==
    /\ At(t, "mt_chk")
    /\ is_connected_flag' = IsConnectedFlag
    /\ IF IsConnectedResult
       THEN Goto(t, "ch_chk") /\ UNCHANGED call
       ELSE ReturnConnect(t)
    /\ UNCHANGED <<serial, connecting, ret>>
    /\ UNCHANGED <<wire, linkExtra, nonRelayVars>>

\* ---- continuous test, lines 286-333.  Time is counted in quarters of a
\* second here: the 0.05 s + 0.2 s a test thread sleeps after a command is
\* one tick; join(timeout=1.0) and the serial write_timeout (1.0 s) are four.
SleepTicks == 1
WriteTimeout == 4
JoinTimeout == 4
\* the duration continuous_test() is called with
TestDuration == 4

CallContinuousTest(t) == Begin(t, "continuous_test", "ct_chk")
CallStopTest(t) == Begin(t, "stop_test", "st_set")

Alive(k) == tpc[k] \notin {"none", "dead"}
FreeThreads(slots) == {k \in slots : ~Alive(k)}

\* lines 294-296
ContinuousTestCheck(t) ==
    /\ At(t, "ct_chk")
    /\ IF test_mode
       THEN Return(t, FALSE)
       ELSE Goto(t, "ct_start") /\ UNCHANGED ret
    /\ UNCHANGED <<serial, is_connected_flag, connecting, call>>
    /\ UNCHANGED <<wire, linkExtra, nonRelayVars>>

\* lines 298-303: the thread is created and started; start_time is taken at
\* line 307
StartTestThread(t, slots) ==
    /\ At(t, "ct_start")
    /\ FreeThreads(slots) # {}
    /\ LET k == CHOOSE f \in FreeThreads(slots) :
                    \A g \in FreeThreads(slots) : f <= g
       IN /\ test_mode' = TRUE
          /\ test_thread' = k
          /\ tpc' = [tpc EXCEPT ![k] = "t_while"]
          /\ tElapsed' = [tElapsed EXCEPT ![k] = 0]
          /\ testElapsed' = [testElapsed EXCEPT ![k] = 0]
    /\ Return(t, TRUE)
    /\ UNCHANGED <<serial, is_connected_flag, connecting, call>>
    /\ UNCHANGED <<wire, relay_enabled, defect_event, joinElapsed, writesAfterStop,
                   nonRelayVars>>

\* the test started when the thread of the test before has ended
ContinuousTestStart(t) == StartTestThread(t, TestThreads)
\* the test started whether the thread of the test before has ended or not
ContinuousTestRestart(t) == StartTestThread(t, TestSlots)

ContinuousTestStep(t) == ContinuousTestCheck(t) \/ ContinuousTestStart(t)

\* line 329
StopTestSet(t) ==
    /\ At(t, "st_set")
    /\ test_mode' = FALSE
    /\ Goto(t, "st_alive")
    /\ UNCHANGED <<serial, is_connected_flag, connecting, ret, call>>
    /\ UNCHANGED <<wire, relay_enabled, defect_event, test_thread, tpc, tElapsed,
                   testElapsed, joinElapsed, writesAfterStop, nonRelayVars>>

\* line 330: is there a thread, and is it alive
StopTestAlive(t) ==
    /\ At(t, "st_alive")
    /\ IF test_thread # 0 /\ Alive(test_thread)
       THEN Goto(t, "st_join")
       ELSE Invoke(t, "st_ret", "off_chk")
    /\ joinElapsed' = 0
    /\ UNCHANGED <<serial, is_connected_flag, connecting, ret, call>>
    /\ UNCHANGED <<wire, relay_enabled, defect_event, test_mode, test_thread, tpc, tElapsed,
                   testElapsed, writesAfterStop, nonRelayVars>>

\* line 331: join(timeout=1.0) returns when the thread has ended or when the
\* timeout has run out; line 332 calls turn_off()
StopTestJoin(t) ==
    /\ At(t, "st_join")
    /\ ~Alive(test_thread) \/ joinElapsed >= JoinTimeout
    /\ Invoke(t, "st_ret", "off_chk")
    /\ UNCHANGED <<serial, is_connected_flag, connecting, ret, call>>
    /\ UNCHANGED <<wire, linkExtra, nonRelayVars>>

\* lines 332-333: turn_off() has returned, and stop_test() returns
StopTestReturn(t) ==
    /\ At(t, "st_ret")
    /\ Return(t, FALSE)
    /\ writesAfterStop' = 0
    /\ UNCHANGED <<serial, is_connected_flag, connecting, call>>
    /\ UNCHANGED <<wire, relay_enabled, defect_event, test_mode, test_thread, tpc, tElapsed,
                   testElapsed, joinElapsed, nonRelayVars>>

StopTestStep(t) ==
    \/ StopTestSet(t)
    \/ StopTestAlive(t)
    \/ StopTestJoin(t)
    \/ StopTestReturn(t)

\* ---- _continuous_test_thread(), lines 305-325, run by thread k
\* the last call of the GUI thread was stop_test(), and it has returned
StopTestReturned == Idle("gui") /\ call["gui"].op = "stop_test"

TestGoto(k, l) ==
    /\ tpc' = [tpc EXCEPT ![k] = l]
    /\ tElapsed' = [tElapsed EXCEPT ![k] = 0]

\* line 310: the loop test
TestWhile(k) ==
    /\ tpc[k] = "t_while"
    /\ IF test_mode /\ testElapsed[k] < TestDuration
       THEN TestGoto(k, "t_on_chk")
       ELSE TestGoto(k, "t_fin")
    /\ UNCHANGED <<serial, is_connected_flag, connecting, stack, ret, call>>
    /\ UNCHANGED <<wire, relay_enabled, defect_event, test_mode, test_thread, testElapsed,
                   joinElapsed, writesAfterStop, nonRelayVars>>

\* turn_on() / turn_off(), lines 191-193 / 212-214, called at line 311 / 313
TestTurnCheck(k, cmd) ==
    /\ tpc[k] = "t_" \o cmd \o "_chk"
    /\ is_connected_flag' = IsConnectedFlag
    /\ IF IsConnectedResult
       THEN TestGoto(k, "t_" \o cmd \o "_wr")
       ELSE TestGoto(k, "t_fin")
    /\ writesAfterStop' =
          IF IsConnectedResult /\ StopTestReturned THEN 1 ELSE 0
    /\ UNCHANGED <<serial, connecting, stack, ret, call>>
    /\ UNCHANGED <<wire, relay_enabled, defect_event, test_mode, test_thread, testElapsed,
                   joinElapsed, nonRelayVars>>

\* lines 195-204 / 216-225: write() and flush() return, or raise, within the
\* write timeout; a command that failed ends the loop (lines 316-318)
TestTurnWrite(k, cmd) ==
    /\ tpc[k] = "t_" \o cmd \o "_wr"
    /\ \E wrote \in BOOLEAN :
         IF serial = "open" /\ wrote
         THEN TestGoto(k, IF cmd = "on" THEN "t_sleep1" ELSE "t_sleep2")
         ELSE TestGoto(k, "t_fin")
    /\ Sent(CommandBytes(cmd))
    /\ writesAfterStop' =
          IF writesAfterStop = 1 /\ serial = "open" THEN 2 ELSE 0
    /\ UNCHANGED <<serial, is_connected_flag, connecting, stack, ret, call>>
    /\ UNCHANGED <<relay_enabled, defect_event, test_mode, test_thread, testElapsed,
                   joinElapsed, nonRelayVars>>

\* lines 199 and 312 / 220 and 315: the sleeps after a command
TestSleep(k) ==
    /\ tpc[k] \in {"t_sleep1", "t_sleep2"}
    /\ tElapsed[k] >= SleepTicks
    /\ TestGoto(k, IF tpc[k] = "t_sleep1" THEN "t_off_chk" ELSE "t_while")
    /\ UNCHANGED <<serial, is_connected_flag, connecting, stack, ret, call>>
    /\ UNCHANGED <<wire, relay_enabled, defect_event, test_mode, test_thread, testElapsed,
                   joinElapsed, writesAfterStop, nonRelayVars>>

\* lines 321-323: finally: self.test_mode = False, and the thread ends
TestFinally(k) ==
    /\ tpc[k] = "t_fin"
    /\ test_mode' = FALSE
    /\ TestGoto(k, "dead")
    /\ testElapsed' = [testElapsed EXCEPT ![k] = 0]
    /\ UNCHANGED <<serial, is_connected_flag, connecting, stack, ret, call>>
    /\ UNCHANGED <<wire, relay_enabled, defect_event, test_thread, joinElapsed,
                   writesAfterStop, nonRelayVars>>

TestThreadStep(k) ==
    \/ TestWhile(k)
    \/ TestTurnCheck(k, "on")
    \/ TestTurnWrite(k, "on")
    \/ TestTurnCheck(k, "off")
    \/ TestTurnWrite(k, "off")
    \/ TestSleep(k)
    \/ TestFinally(k)

WriteLabels == {"t_on_wr", "t_off_wr"}
SleepLabels == {"t_sleep1", "t_sleep2"}

\* thread k cannot let time pass: it is between two statements, its sleep
\* is over, or its write has run into the write timeout
Urgent(k) ==
    \/ tpc[k] \in {"t_while", "t_on_chk", "t_off_chk", "t_fin"}
    \/ tpc[k] \in SleepLabels /\ tElapsed[k] >= SleepTicks
    \/ tpc[k] \in WriteLabels /\ tElapsed[k] >= WriteTimeout

\* a quarter of a second passes
RelayTick ==
    /\ \A k \in TestSlots : ~Urgent(k)
    /\ tElapsed' = [k \in TestSlots |->
          IF tpc[k] \in WriteLabels \cup SleepLabels
          THEN Min(tElapsed[k] + 1, WriteTimeout) ELSE tElapsed[k]]
    /\ testElapsed' = [k \in TestSlots |->
          IF Alive(k) THEN Min(testElapsed[k] + 1, TestDuration)
          ELSE testElapsed[k]]
    /\ joinElapsed' = IF At("gui", "st_join")
                      THEN Min(joinElapsed + 1, JoinTimeout) ELSE joinElapsed
    /\ <<tElapsed', testElapsed', joinElapsed'>> # <<tElapsed, testElapsed, joinElapsed>>
    /\ UNCHANGED <<serial, is_connected_flag, connecting, stack, ret, call>>
    /\ UNCHANGED <<wire, relay_enabled, defect_event, test_mode, test_thread, tpc,
                   writesAfterStop, nonRelayVars>>

\* the GUI thread connects, starts and stops continuous tests and
\* disconnects, while the test threads run
TestNext ==
    \/ CallConnect("gui")
    \/ CallContinuousTest("gui")
    \/ CallStopTest("gui")
    \/ CallDisconnect("gui")
    \/ ConnectStep("gui")
    \/ ContinuousTestStep("gui")
    \/ StopTestStep("gui")
    \/ DisconnectStep("gui")
    \/ TurnOffStep("gui")
    \/ \E k \in TestThreads : TestThreadStep(k)
    \/ RelayTick

\* the GUI thread connects, starts a continuous test and sends trigger
\* pulses while the test thread runs
PulseNext ==
    \/ CallConnect("gui")
    \/ CallContinuousTest("gui")
    \/ CallTrigger("gui")
    \/ ConnectStep("gui")
    \/ ContinuousTestStep("gui")
    \/ TriggerStep("gui")
    \/ TurnOnStep("gui")
    \/ TurnOffStep("gui")
    \/ DisconnectStep("gui")
    \/ StopTestStep("gui")
    \/ \E k \in TestThreads : TestThreadStep(k)
    \/ RelayTick

\* on a connected link the GUI thread starts and stops continuous tests,
\* one after the other, while the test threads run
RestartNext ==
    \/ CallContinuousTest("gui")
    \/ CallStopTest("gui")
    \/ ContinuousTestCheck("gui")
    \/ ContinuousTestRestart("gui")
    \/ StopTestStep("gui")
    \/ TurnOffStep("gui")
    \/ \E k \in TestSlots : TestThreadStep(k)
    \/ RelayTick

\* ---- VideoApp as the owner of the link, main.py
\* initialize_relay(), lines 410-438, and open_relay_setup(), lines 636-660:
\* the controller in use, if any, is disconnected, and a new controller is
\* created and connected
CallRelaySetup(t) ==
    /\ Idle(t)
    /\ stack' = [stack EXCEPT ![t] = <<"rs_ret", "cn_guard", "dc_test">>]
    /\ call' = [call EXCEPT ![t] =
           [NoCall EXCEPT !.op = "relay_setup", !.pre = IsConnectedResult,
                          !.connects = 1]]
    /\ UNCHANGED <<serial, is_connected_flag, connecting, ret>>
    /\ UNCHANGED <<wire, linkExtra, nonRelayVars>>

\* lines 419-427 / 644-652: relay_enabled is what connect() returned
RelaySetupReturn(t) ==
    /\ At(t, "rs_ret")
    /\ relay_enabled' = ret[t]
    /\ Return(t, ret[t])
    /\ UNCHANGED <<serial, is_connected_flag, connecting, call>>
    /\ UNCHANGED <<wire, defect_event, testVars, nonRelayVars>>

\* force_release_port(), lines 512-519
CallForceReleasePort(t) == Begin(t, "force_release_port", "dc_test")

\* the relay_maintenance_timer fires, lines 75-78
CallMaintainRelayConnection(t) == Begin(t, "maintain_relay_connection", "mrc_chk")

\* maintain_relay_connection(), lines 531-555: is_connected() is asked and
\* the status label is set from its answer
MaintainRelayConnection(t) ==
    /\ At(t, "mrc_chk")
    /\ is_connected_flag' = IF relay_enabled THEN IsConnectedFlag
                            ELSE is_connected_flag
    /\ Return(t, relay_enabled /\ IsConnectedResult)
    /\ UNCHANGED <<serial, connecting, call>>
    /\ UNCHANGED <<wire, linkExtra, nonRelayVars>>

\* ---- process_defects(), main.py lines 367-408: the body of the loop for
\* one defect that passed the rate limit
CallHandleDefect(t) ==
    /\ Idle(t)
    /\ stack' = [stack EXCEPT ![t] = <<"pd_log">>]
    /\ call' = [call EXCEPT ![t] =
           [NoCall EXCEPT !.op = "defect", !.pre = IsConnectedResult]]
    /\ defect_event' = NoDefect
    /\ UNCHANGED <<serial, is_connected_flag, connecting, ret>>
    /\ UNCHANGED <<wire, relay_enabled, testVars, nonRelayVars>>

\* database_manager.log_fault(), called at lines 372-377: the call returns
\* or raises
LogOutcomes == {"ok", "raise"}

\* lines 368-382 and 407-408: the fault is logged, then the defect is
\* appended to self.defects; an exception of log_fault() is caught by the
\* except of line 407, which ends the handling of this defect
DefectLog(t) ==
    /\ At(t, "pd_log")
    /\ \E out \in LogOutcomes :
          /\ defect_event' = [defect_event EXCEPT !.log = out,
                                                  !.appended = (out = "ok")]
          /\ IF out = "ok"
             THEN Goto(t, "pd_relay") /\ UNCHANGED ret
             ELSE Return(t, FALSE)
    /\ UNCHANGED <<serial, is_connected_flag, connecting, call>>
    /\ UNCHANGED <<wire, relay_enabled, testVars, nonRelayVars>>

\* lines 386-388 and 404-405: maintain_connection() is asked when the relay
\* is enabled
DefectRelay(t) ==
    /\ At(t, "pd_relay")
    /\ IF relay_enabled
       THEN Invoke(t, "pd_maintained", "mt_chk") /\ UNCHANGED ret
       ELSE Return(t, FALSE)
    /\ UNCHANGED <<serial, is_connected_flag, connecting, call>>
    /\ UNCHANGED <<wire, linkExtra, nonRelayVars>>

\* the same with the trigger sent whatever maintain_connection() returned
DefectMaintainedAlwaysTriggers(t) ==
    /\ At(t, "pd_maintained")
    /\ Invoke(t, "pd_triggered", "tr_chk")
    /\ defect_event' = [defect_event EXCEPT
                            !.maintained = IF ret[t] THEN "yes" ELSE "no",
                            !.triggers = defect_event.triggers + 1,
                            !.mark = Len(call[t].writes)]
    /\ UNCHANGED <<serial, is_connected_flag, connecting, ret, call>>
    /\ UNCHANGED <<wire, relay_enabled, testVars, nonRelayVars>>

\* lines 388-390 and 401-403: maintain_connection() has returned; trigger()
\* is called when it returned True
DefectMaintained(t) ==
    /\ At(t, "pd_maintained")
    /\ IF ret[t]
       THEN /\ Invoke(t, "pd_triggered", "tr_chk")
            /\ defect_event' = [defect_event EXCEPT
                                    !.maintained = "yes",
                                    !.triggers = defect_event.triggers + 1,
                                    !.mark = Len(call[t].writes)]
            /\ UNCHANGED ret
       ELSE /\ Return(t, FALSE)
            /\ defect_event' = [defect_event EXCEPT !.maintained = "no"]
    /\ UNCHANGED <<serial, is_connected_flag, connecting, call>>
    /\ UNCHANGED <<wire, relay_enabled, testVars, nonRelayVars>>

\* lines 390-396: trigger() has returned; the next defect follows
DefectTriggered(t) ==
    /\ At(t, "pd_triggered")
    /\ Return(t, ret[t])
    /\ UNCHANGED <<serial, is_connected_flag, connecting, call>>
    /\ UNCHANGED <<wire, linkExtra, nonRelayVars>>

DefectStep(t) ==
    \/ DefectLog(t)
    \/ DefectRelay(t)
    \/ DefectMaintained(t)
    \/ DefectTriggered(t)

\* the GUI thread handles defect after defect; between two the link may be
\* disconnected (relay setup dialog, force release)
DefectNext ==
    \/ CallHandleDefect("gui")
    \/ CallDisconnect("gui")
    \/ DefectLog("gui")
    \/ DefectRelay("gui")
    \/ DefectMaintained("gui")
    \/ DefectTriggered("gui")
    \/ MaintainStep("gui")
    \/ HealthStep("gui")
    \/ ConnectStep("gui")
    \/ DisconnectStep("gui")
    \/ TurnOnStep("gui")
    \/ TurnOffStep("gui")
    \/ TriggerStep("gui")

\* the owner sets the link up, releases the port, and its maintenance timer
\* fires
OwnerNext ==
    \/ CallRelaySetup("gui")
    \/ CallForceReleasePort("gui")
    \/ CallMaintainRelayConnection("gui")
    \/ RelaySetupReturn("gui")
    \/ MaintainRelayConnection("gui")
    \/ ConnectStep("gui")
    \/ DisconnectStep("gui")
    \/ TurnOffStep("gui")

\* the GUI thread calls the link and runs its calls to the end
RelayNext ==
    \/ CallConnect("gui")
    \/ CallDisconnect("gui")
    \/ CallTurnOn("gui")
    \/ CallTurnOff("gui")
    \/ CallTrigger("gui")
    \/ CallMaintain("gui")
    \/ ConnectStep("gui")
    \/ DisconnectStep("gui")
    \/ TurnOnStep("gui")
    \/ TurnOffStep("gui")
    \/ TriggerStep("gui")
    \/ HealthStep("gui")
    \/ MaintainStep("gui")

\* the GUI thread uses every actuation call of the link, test_relay()
\* included
ActuateNext ==
    \/ CallConnect("gui")
    \/ CallDisconnect("gui")
    \/ CallTurnOn("gui")
    \/ CallTurnOff("gui")
    \/ CallTrigger("gui")
    \/ CallTestRelay("gui")
    \/ CallMaintain("gui")
    \/ ConnectStep("gui")
    \/ DisconnectStep("gui")
    \/ TurnOnStep("gui")
    \/ TurnOffStep("gui")
    \/ TriggerStep("gui")
    \/ TestRelayCheck("gui")
    \/ TestRelayFor("gui")
    \/ TestRelayOn("gui")
    \/ TestRelayOff("gui")
    \/ HealthStep("gui")
    \/ MaintainStep("gui")

\* two callers of connect() (and of disconnect()) on the same controller
RaceNext ==
    \E t \in Callers :
        \/ CallConnect(t)
        \/ CallDisconnect(t)
        \/ ConnectStep(t)
        \/ DisconnectStep(t)
        \/ TurnOffStep(t)

\* -------------------------------------------------------- DetectionEngine
\* the cap of the evidence store, hardware_config 'max_defect_images' (200, 100
\* or 50 by hardware class), scaled down
max_defect_images == 2
\* the seconds the wall clock goes through
MaxClock == 3
\* the lines HoughLinesP returns for one frame
MaxLines == 1
\* the same where segments whose handling raises are among them
MaxFaultyLines == 2

Abs(x) == IF x < 0 THEN 0 - x ELSE x

\* what set_detection_settings() is called with: the defaults of __init__,
\* a narrow band below 90, and a wide band
SettingsChoices ==
    { [standard |-> 90, tol |-> 5, lo |-> 80, hi |-> 100],
      [standard |-> 85, tol |-> 2, lo |-> 80, hi |-> 90],
      [standard |-> 90, tol |-> 10, lo |-> 70, hi |-> 100] }

\* arguments of is_defect_angle()
Angles == {69, 70, 75, 79, 80, 81, 83, 84, 85, 86, 87, 88, 90, 95, 100, 101}
\* np.arctan2(...) * 180 / np.pi of a segment, in degrees
Thetas == {-180, -97, -90, 0, 84, 90, 96, 180}
\* a detected segment: its direction, whether its endpoints lie inside the
\* frame (lines 90-93), and whether a statement handling it raises (the
\* unpacking at line 87, the drawing at lines 101 and 107)
LineThetas == {-97, 0, 84}
LineInputs ==
    [theta : LineThetas, inside : {TRUE}, fails : {FALSE}]
        \cup {[theta |-> 84, inside |-> FALSE, fails |-> FALSE]}
\* the same and a segment whose handling raises
FaultyLineInputs ==
    LineInputs \cup {[theta |-> 84, inside |-> TRUE, fails |-> TRUE]}
\* the frame handed in: None or empty, an image, or an image on which a
\* processing step (lines 52-71) raises
FrameInputs == {"none", "image", "bad"}

RECURSIVE SeqsUpTo(_, _)
SeqsUpTo(S, n) ==
    IF n = 0 THEN {<<>>}
    ELSE LET shorter == SeqsUpTo(S, n - 1)
         IN shorter \cup {Append(q, x) : q \in {r \in shorter : Len(r) = n - 1}, x \in S}

NoEngineCall ==
    [op |-> "none", arg |-> 0, result |-> 0, defects |-> <<>>,
     before |-> {}, evicted |-> {}, saved |-> FALSE,
     frame |-> "none", lines |-> <<>>]

\* DetectionEngine.__init__, with an empty defect_images directory
EngineInit ==
    /\ standard_angle = 90
    /\ tolerance = 5
    /\ min_defect_angle = 80
    /\ max_defect_angle = 100
    /\ defect_image_count = 0
    /\ files = {}
    /\ clock = 0
    /\ lastCall = NoEngineCall

\* the same without the fold
CalculateLineAngleNoFold(theta) == Abs(theta)

\* calculate_line_angle(), lines 121-135, applied to the arctan2 of a segment
CalculateLineAngle(theta) ==
    LET angle == Abs(theta)
    IN IF angle > 90 THEN 180 - angle ELSE angle

\* the same with a deviation equal to the tolerance counted as a defect
IsDefectAngleInclusive(angle) ==
    LET angle_deviation == Abs(angle - standard_angle)
    IN /\ angle_deviation >= tolerance
       /\ min_defect_angle <= angle
       /\ angle <= max_defect_angle

\* is_defect_angle(), lines 137-149
IsDefectAngle(angle) ==
    LET angle_deviation == Abs(angle - standard_angle)
    IN /\ angle_deviation > tolerance
       /\ min_defect_angle <= angle
       /\ angle <= max_defect_angle

\* cleanup_old_defect_images(), lines 203-226: the files it removes.  Sorted
\* by mtime, files[:-max_defect_images] are all but the newest
\* max_defect_images, and only when there are more than that many.
FilesToRemove(fs) ==
    IF Cardinality(fs) > max_defect_images
    THEN {f \in fs :
            Cardinality({g \in fs : g.mtime > f.mtime}) >= max_defect_images}
    ELSE {}

\* save_defect_frame(), lines 180-201: the name is the timestamp to the
\* second, so a second image in the same second replaces the first
SaveDefectFrame(fs, now, ok) ==
    IF ok
    THEN {f \in fs : f.name # now} \cup {[name |-> now, mtime |-> now]}
    ELSE fs

\* create_defect_info(), lines 151-178, on the store st = [files, count];
\* the result carries what the call found, removed and wrote
CreateDefectInfo(st, now, ok) ==
    IF st.count < max_defect_images
    THEN [files |-> SaveDefectFrame(st.files, now, ok),
          count |-> st.count + 1,
          before |-> st.files, evicted |-> {}, saved |-> ok]
    ELSE LET gone == FilesToRemove(st.files)
         IN [files |-> SaveDefectFrame(st.files \ gone, now, ok),
             count |-> 1,
             before |-> st.files, evicted |-> gone, saved |-> ok]

\* the same with the error of a line ending the loop: it reaches the handler
\* at line 117, which returns no defect
OnLineErrorAborts(lines, i, st, now, ok) == [st EXCEPT !.defects = <<>>]

RECURSIVE ProcessLines(_, _, _, _, _)
RECURSIVE OnLineError(_, _, _, _, _)
\* lines 109-111: the error of a line is printed and the loop continues
OnLineError(lines, i, st, now, ok) == ProcessLines(lines, i + 1, st, now, ok)

\* lines 84-111: the loop over the segments, from the i-th on
ProcessLines(lines, i, st, now, ok) ==
    IF i > Len(lines) THEN st
    ELSE LET angle == CalculateLineAngle(lines[i].theta)
         IN IF lines[i].fails
            THEN OnLineError(lines, i, st, now, ok)
            ELSE IF lines[i].inside /\ IsDefectAngle(angle)
            THEN LET made == CreateDefectInfo(st, now, ok)
                 IN ProcessLines(lines, i + 1,
                        [files |-> made.files, count |-> made.count,
                         before |-> made.before, evicted |-> made.evicted,
                         saved |-> made.saved,
                         defects |-> Append(st.defects,
                                            [theta |-> lines[i].theta, angle |-> angle])],
                        now, ok)
            ELSE ProcessLines(lines, i + 1, st, now, ok)

\* set_detection_settings(), lines 39-43
SetDetectionSettings ==
    /\ \E s \in SettingsChoices :
         /\ standard_angle' = s.standard
         /\ tolerance' = s.tol
         /\ min_defect_angle' = s.lo
         /\ max_defect_angle' = s.hi
    /\ lastCall' = [NoEngineCall EXCEPT !.op = "set_detection_settings"]
    /\ UNCHANGED <<defect_image_count, files, clock>>
    /\ UNCHANGED nonEngineVars

\* detect_and_draw_lines_with_angles(), lines 45-119, on one frame.  A frame
\* that is None or empty returns at line 49; an error of a step before the
\* loop is caught at line 117; imwrite may fail to write.  No statement is
\* outside the try, so nothing is raised to the caller.
Detect(batches) ==
    /\ \E frame \in FrameInputs, lines \in batches, ok \in BOOLEAN :
         LET start == [files |-> files, count |-> defect_image_count,
                       before |-> files, evicted |-> {}, saved |-> FALSE,
                       defects |-> <<>>]
             end == IF frame # "image" THEN start
                    ELSE ProcessLines(lines, 1, start, clock, ok)
         IN /\ frame # "image" => lines = <<>> /\ ok
            /\ files' = end.files
            /\ defect_image_count' = end.count
            /\ lastCall' = [NoEngineCall EXCEPT
                   !.op = "detect", !.arg = clock, !.defects = end.defects,
                   !.before = end.before, !.evicted = end.evicted,
                   !.saved = end.saved, !.frame = frame, !.lines = lines]
    /\ UNCHANGED <<standard_angle, tolerance, min_defect_angle,
                   max_defect_angle, clock>>
    /\ UNCHANGED nonEngineVars

\* the engine is given a frame with the segments HoughLinesP found in it
DetectAndDrawLinesWithAngles == Detect(SeqsUpTo(LineInputs, MaxLines))

\* the same with segments whose handling raises among them
DetectFaultyLines == Detect(SeqsUpTo(FaultyLineInputs, MaxFaultyLines))

\* a call of calculate_line_angle() alone
CalculateLineAngleCall ==
    /\ \E theta \in Thetas :
         lastCall' = [NoEngineCall EXCEPT !.op = "calculate_line_angle",
                          !.arg = theta, !.result = CalculateLineAngle(theta)]
    /\ UNCHANGED <<standard_angle, tolerance, min_defect_angle,
                   max_defect_angle, defect_image_count, files, clock>>
    /\ UNCHANGED nonEngineVars

\* a call of is_defect_angle() alone; result 1 is True
IsDefectAngleCall ==
    /\ \E angle \in Angles :
         lastCall' = [NoEngineCall EXCEPT !.op = "is_defect_angle",
                          !.arg = angle,
                          !.result = IF IsDefectAngle(angle) THEN 1 ELSE 0]
    /\ UNCHANGED <<standard_angle, tolerance, min_defect_angle,
                   max_defect_angle, defect_image_count, files, clock>>
    /\ UNCHANGED nonEngineVars

\* a second of wall-clock time passes
ClockTick ==
    /\ clock < MaxClock
    /\ clock' = clock + 1
    /\ UNCHANGED <<standard_angle, tolerance, min_defect_angle,
                   max_defect_angle, defect_image_count, files, lastCall>>
    /\ UNCHANGED nonEngineVars

EngineNext ==
    \/ SetDetectionSettings
    \/ DetectAndDrawLinesWithAngles
    \/ CalculateLineAngleCall
    \/ IsDefectAngleCall
    \/ ClockTick

\* the engine given frame after frame, some of them faulty
DetectNext ==
    \/ SetDetectionSettings
    \/ DetectFaultyLines

\* ------------------------------------------------- VideoApp, the coordinator
\* Time is counted in half seconds here: the trigger pulse (trigger_duration
\* 0.5 s) is one tick and the rate-limit window (1.0 s, line 360) two.
TriggerTicks == 1
RateWindow == 2
\* detection_interval (0.2, 0.5 or 1.0 s by hardware class)
DetectionInterval == 1
\* max_defects_per_second (10, 5 or 3 by hardware class), scaled down
max_defects_per_second == 2
\* the defects one detection run returns (at most 20 lines are looked at)
MaxBatch == 4
\* the smallest ROI side detection is run on, line 328
MinRoiSide == 10
\* the sides of the ROI rectangle in frame pixels
RoiSides == {9, 10, 50}

NoRoi == [selected |-> FALSE, w |-> 0, h |-> 0]
NoFrame == [due |-> FALSE, w |-> 0, h |-> 0, ran |-> FALSE, produced |-> 0, images |-> 0,
            drawn |-> FALSE, accepted |-> 0, triggers |-> 0, dropped |-> FALSE,
            fresh |-> FALSE, early |-> FALSE, spaced |-> FALSE,
            capped |-> FALSE, capBefore |-> FALSE]

\* VideoApp.__init__, lines 40-46; last_detection_time = 0 and
\* last_defect_time = 0 lie further back than any interval
CoordInit ==
    /\ detection_enabled = FALSE
    /\ roi = NoRoi
    /\ sinceDetection = DetectionInterval
    /\ sinceDefect = RateWindow
    /\ defect_count_this_second = 0
    /\ windowAccepted = 0
    /\ lastFrame = NoFrame
    /\ second_changed = FALSE
    /\ sinceFps = 0
    /\ sinceRun = DetectionInterval
    /\ capReached = FALSE

\* enable_roi_selection(), lines 557-567, and clear_roi_selection(), 569-574
ClearRoiSelection ==
    /\ roi' = NoRoi
    /\ detection_enabled' = FALSE
    /\ UNCHANGED <<sinceDetection, sinceDefect, defect_count_this_second,
                   windowAccepted, lastFrame>>
    /\ UNCHANGED fpsVars
    /\ UNCHANGED nonCoordVars

\* video_widget mouse release, lines 66-72, and corner dragging, lines 49-63:
\* the rectangle is whatever the user drew
RoiSelected ==
    /\ \E w \in RoiSides, h \in RoiSides :
         roi' = [selected |-> TRUE, w |-> w, h |-> h]
    /\ UNCHANGED <<detection_enabled, sinceDetection, sinceDefect,
                   defect_count_this_second, windowAccepted, lastFrame>>
    /\ UNCHANGED fpsVars
    /\ UNCHANGED nonCoordVars

\* toggle_detection(), lines 182-196
ToggleDetection ==
    /\ detection_enabled' = IF detection_enabled THEN FALSE ELSE roi.selected
    /\ UNCHANGED <<roi, sinceDetection, sinceDefect, defect_count_this_second,
                   windowAccepted, lastFrame>>
    /\ UNCHANGED fpsVars
    /\ UNCHANGED nonCoordVars

\* the same with both sides required to be short
RoiTooSmallBothSides(r) == r.w < MinRoiSide /\ r.h < MinRoiSide

\* run_detection(), lines 327-329
RoiTooSmall(r) == r.w < MinRoiSide \/ r.h < MinRoiSide

\* what happens to one accepted defect at lines 386-405: the relay is not
\* enabled, maintain_connection() returned False, or trigger() was called
Outcomes == IF relay_enabled THEN {"unhealthy", "triggered"} ELSE {"none"}

RECURSIVE OutcomeSeqs(_)
OutcomeSeqs(n) ==
    IF n = 0 THEN {<<>>}
    ELSE {Append(q, o) : q \in OutcomeSeqs(n - 1), o \in Outcomes}

\* lines 367-408: the loop over the batch, from the i-th defect on.
\* st = [count, since, inWindow, elapsed, triggers]; trigger() blocks for
\* trigger_duration.
RECURSIVE AcceptBatch(_, _, _)
AcceptBatch(outcomes, i, st) ==
    IF i > Len(outcomes) THEN st
    ELSE LET pulse == IF outcomes[i] = "triggered" THEN TriggerTicks ELSE 0
         IN AcceptBatch(outcomes, i + 1,
               [count |-> st.count + 1,
                since |-> Min(st.since + pulse, RateWindow),
                inWindow |-> IF st.since < RateWindow
                             THEN st.inWindow + 1 ELSE st.inWindow,
                elapsed |-> Min(st.elapsed + pulse, DetectionInterval),
                triggers |-> IF outcomes[i] = "triggered"
                             THEN st.triggers + 1 ELSE st.triggers])

\* the same with a batch let through when the counter equals the cap
BatchDroppedAboveCap ==
    sinceDefect < RateWindow /\ defect_count_this_second > max_defects_per_second

\* the rate-limit test of process_defects(), lines 360-365, made once for the
\* whole batch
BatchDropped ==
    sinceDefect < RateWindow /\ defect_count_this_second >= max_defects_per_second

\* the same with detection run on every frame
DetectionDueAlways == TRUE

\* process_frame(), line 298
DetectionDue == sinceDetection >= DetectionInterval

\* process_frame(), lines 285-312, with run_detection(), lines 314-353, and
\* process_defects(), lines 355-408, for one frame of the acquisition loop.
\* n is the number of defects detection returns, each with its evidence
\* image written by the engine; drew says whether it drew lines on the ROI.
ProcessFrame ==
    /\ \E n \in 0 .. MaxBatch, drew \in BOOLEAN :
       \E outcomes \in OutcomeSeqs(n) :
         LET due == /\ detection_enabled
                    /\ roi.selected
                    /\ DetectionDue
             ran == due /\ ~RoiTooSmall(roi)
             dropped == ran /\ BatchDropped
             fresh == ran /\ ~(sinceDefect < RateWindow)
             start == [count |-> IF fresh THEN 0 ELSE defect_count_this_second,
                       since |-> IF fresh THEN 0 ELSE sinceDefect,
                       inWindow |-> IF fresh THEN 0 ELSE windowAccepted,
                       elapsed |-> 0, triggers |-> 0]
             end == IF ran /\ ~dropped
                    THEN AcceptBatch(outcomes, 1, start)
                    ELSE start
         IN /\ ~ran => n = 0 /\ ~drew
            /\ n > 0 => drew
            /\ dropped => outcomes \in {<<>>} \cup {[i \in 1 .. n |-> "none"]}
                          \cup {[i \in 1 .. n |-> "unhealthy"]}
            /\ defect_count_this_second' = end.count
            /\ sinceDefect' = end.since
            /\ windowAccepted' = end.inWindow
            /\ sinceDetection' = IF due THEN end.elapsed ELSE sinceDetection
            /\ lastFrame' = [due |-> due, w |-> IF due THEN roi.w ELSE 0,
                             h |-> IF due THEN roi.h ELSE 0,
                             ran |-> ran, produced |-> n,
                             images |-> n, drawn |-> drew,
                             accepted |-> end.count - start.count,
                             triggers |-> end.triggers, dropped |-> dropped,
                             fresh |-> fresh,
                             early |-> /\ detection_enabled
                                       /\ roi.selected
                                       /\ sinceDetection < DetectionInterval,
                             spaced |-> ran /\ sinceRun >= DetectionInterval,
                             capped |-> /\ ran
                                        /\ sinceDefect < RateWindow
                                        /\ defect_count_this_second
                                               >= max_defects_per_second,
                             capBefore |-> FALSE]
            /\ sinceRun' = IF ran THEN end.elapsed ELSE sinceRun
    /\ UNCHANGED <<detection_enabled, roi, wallVars, capReached>>
    /\ UNCHANGED nonCoordVars

\* process_defects(), lines 355-408, called with a batch of n defects while
\* the wall clock and the fps timer are followed
ProcessDefects ==
    /\ \E n \in 0 .. MaxBatch :
       \E outcomes \in OutcomeSeqs(n) :
         LET dropped == BatchDropped
             fresh == ~(sinceDefect < RateWindow)
             start == [count |-> IF fresh THEN 0 ELSE defect_count_this_second,
                       since |-> IF fresh THEN 0 ELSE sinceDefect,
                       inWindow |-> IF fresh THEN 0 ELSE windowAccepted,
                       elapsed |-> 0, triggers |-> 0]
             end == IF ~dropped THEN AcceptBatch(outcomes, 1, start) ELSE start
             \* the time the trigger pulses of the batch took
             took == end.triggers * TriggerTicks
         IN /\ dropped => outcomes \in {<<>>} \cup {[i \in 1 .. n |-> "none"]}
                          \cup {[i \in 1 .. n |-> "unhealthy"]}
            /\ defect_count_this_second' = end.count
            /\ sinceDefect' = end.since
            /\ windowAccepted' = end.inWindow
            /\ lastFrame' = [NoFrame EXCEPT
                   !.due = TRUE, !.ran = TRUE, !.produced = n,
                   !.accepted = end.count - start.count,
                   !.triggers = end.triggers, !.dropped = dropped,
                   !.fresh = fresh,
                   !.capped = /\ sinceDefect < RateWindow
                              /\ defect_count_this_second
                                     >= max_defects_per_second,
                   !.capBefore = ~fresh /\ capReached]
            /\ capReached' = \/ (~fresh /\ capReached)
                              \/ end.count >= max_defects_per_second
            /\ wallPhase' = (wallPhase + took) % RateWindow
            /\ second_changed' = (second_changed \/ wallPhase + took >= RateWindow)
            /\ sinceFps' = Min(sinceFps + took, RateWindow)
    /\ UNCHANGED <<detection_enabled, roi, sinceDetection, sinceRun>>
    /\ UNCHANGED nonCoordVars

\* the fps_timer (1000 ms, lines 71-73) fires: update_fps(), lines 168-180,
\* runs on the GUI thread between two frames
UpdateFps ==
    /\ sinceFps >= RateWindow
    /\ sinceFps' = 0
    /\ defect_count_this_second' =
           IF second_changed THEN 0 ELSE defect_count_this_second
    /\ second_changed' = FALSE
    /\ UNCHANGED <<detection_enabled, roi, sinceDetection, sinceDefect,
                   windowAccepted, lastFrame, wallPhase, sinceRun, capReached>>
    /\ UNCHANGED nonCoordVars

\* half a second passes
CoordTick ==
    /\ sinceDetection < DetectionInterval \/ sinceDefect < RateWindow
    /\ sinceDetection' = Min(sinceDetection + 1, DetectionInterval)
    /\ sinceDefect' = Min(sinceDefect + 1, RateWindow)
    /\ sinceRun' = Min(sinceRun + 1, DetectionInterval)
    /\ UNCHANGED <<detection_enabled, roi, defect_count_this_second,
                   windowAccepted, lastFrame, capReached, wallVars>>
    /\ UNCHANGED nonCoordVars

\* half a second passes on the wall clock as well
WallTick ==
    /\ sinceDefect' = Min(sinceDefect + 1, RateWindow)
    /\ wallPhase' = (wallPhase + 1) % RateWindow
    /\ second_changed' = (second_changed \/ wallPhase + 1 = RateWindow)
    /\ sinceFps' = Min(sinceFps + 1, RateWindow)
    /\ UNCHANGED <<detection_enabled, roi, sinceDetection, sinceRun,
                   defect_count_this_second, windowAccepted, lastFrame,
                   capReached>>
    /\ UNCHANGED nonCoordVars

CoordNext ==
    \/ ClearRoiSelection
    \/ RoiSelected
    \/ ToggleDetection
    \/ ProcessFrame
    \/ CoordTick

\* the rate limiter fed batch after batch, with the fps timer running
RateNext ==
    \/ ProcessDefects
    \/ UpdateFps
    \/ WallTick


\* ------------------------------------------------------- specifications
Init ==
    /\ VideoInit
    /\ RelayInit
    /\ relay_enabled = FALSE
    /\ EngineInit
    /\ CoordInit
    /\ wallPhase = 0

\* the acquisition loop and the caller of stop()
SpecVideo == Init /\ [][VideoNext]_vars

\* the scheduler runs both threads and the clock keeps advancing
FairSpecVideo ==
    /\ SpecVideo
    /\ WF_vars(RunStep)
    /\ WF_vars(StopStep)
    /\ WF_vars(Tick)

\* the acquisition loop left to itself
SpecStart == Init /\ [][StartNext]_vars

RelayOnlyInit == Init /\ source = "camera"

\* the actuator link driven by the GUI thread
SpecRelay == RelayOnlyInit /\ [][RelayNext]_vars

\* the actuator link with two concurrent callers of connect()
SpecRelayRace == RelayOnlyInit /\ [][RaceNext]_vars

\* the detection engine called frame after frame
SpecEngine == RelayOnlyInit /\ [][EngineNext]_vars

\* initialize_relay(), main.py lines 410-438, has run: the relay is enabled
\* when its connect() succeeded
CoordOnlyInit ==
    /\ VideoInit /\ source = "camera"
    /\ RelayInit
    /\ relay_enabled \in BOOLEAN
    /\ EngineInit
    /\ CoordInit
    /\ wallPhase = 0

\* the coordinator fed frame after frame
SpecCoord == CoordOnlyInit /\ [][CoordNext]_vars

\* the actuator link with continuous tests running
SpecRelayTest == RelayOnlyInit /\ [][TestNext]_vars

\* trigger pulses sent while a continuous test runs
SpecPulse == RelayOnlyInit /\ [][PulseNext]_vars

\* the actuator link with every actuation call
SpecActuate == RelayOnlyInit /\ [][ActuateNext]_vars

\* connect() has succeeded
ConnectedInit ==
    /\ VideoInit /\ source = "camera"
    /\ RelayInitConnected
    /\ relay_enabled = TRUE
    /\ EngineInit
    /\ CoordInit
    /\ wallPhase = 0

\* continuous tests started one after the other on a connected link
SpecRestart == ConnectedInit /\ [][RestartNext]_vars

\* the actuator link driven by its owner
SpecOwner == RelayOnlyInit /\ [][OwnerNext]_vars

\* the application is started anywhere in a second of the wall clock
RateOnlyInit ==
    /\ VideoInit /\ source = "camera"
    /\ RelayInit
    /\ relay_enabled \in BOOLEAN
    /\ EngineInit
    /\ CoordInit
    /\ wallPhase \in 0 .. RateWindow - 1

\* the coordinator's rate limiter and its fps timer
SpecRate == RateOnlyInit /\ [][RateNext]_vars

\* the detection engine on faulty frames and segments
SpecDetect == RelayOnlyInit /\ [][DetectNext]_vars

\* the actuator link driven by the defects the coordinator accepts
SpecDefects == CoordOnlyInit /\ [][DefectNext]_vars

Next == VideoNext \/ RelayNext \/ EngineNext \/ CoordNext

Spec == Init /\ [][Next]_vars

\* ------------------------------------------------- claims, acquisition loop

\* C1: after stop() has returned the capture handle is released: self.cap is
\* None (no capture is held, open or not).
C1_StopReleasesHandle == spc = "returned" => cap = "None"

\* C2: once stop() has been called (any time after start()) the run loop
\* terminates and stop() returns.
C2_StopTerminates == (spc # "none") ~> (rpc = "done" /\ spc = "returned")

\* C3: after stop() has returned no notification is emitted any more.
C3_NoEmitAfterStop == [][spc = "returned" => emitTick' = emitTick]_vars

C3_Witness == spc = "returned" /\ lastEmit = "frame"

\* C4: a reconnect is initiated only after at least max_consecutive_failures
\* failed reads in a row; after that many the loop attempts no read before a
\* reconnect has been initiated; the loop's count is the number of failed
\* reads since the last successful one (one per failed or timed-out read, zero
\* after a successful read).
C4_FailureCount ==
    /\ rpc = "r_except" => failRun >= max_consecutive_failures
    /\ (rpc \in {"r_pace", "rf_loop", "rf_read"}
            /\ failRun >= max_consecutive_failures) => reconnSinceFail
    /\ rpc \in (InLoopLabels \ {"r_ok", "r_fail"}) \cup {"r_except"}
            => consecutive_failures = failRun
    /\ rpc = "r_fail" => Min(consecutive_failures + 1, MaxFail) = failRun
    /\ rpc = "r_ok" => failRun = 0

C4_Witness ==
    /\ rpc = "r_except"
    /\ consecutive_failures = max_consecutive_failures
    /\ lastRead = "timeout"

\* C5: a successful reconnect puts the loop back at its head, where a
\* successful read emits a frame; a failed reconnect emits an error and ends
\* the loop, after which nothing is emitted and no reconnect is attempted.
C5_ReconnectOutcome ==
    [][ /\ (rpc = "rc_result" /\ reconnects' = "ok")
            => (rpc' = "r_while" /\ lastEmit' = "reconnected")
        /\ (rpc = "r_ok" /\ rpc' # rpc)
            => (lastEmit' = "frame" /\ emitTick' # emitTick /\ rpc' = "r_while")
        /\ (reconnects # "failed" /\ reconnects' = "failed")
            => (emitTick' # emitTick
                /\ lastEmit' \in {"reconnect_failed", "reconnect_exc"}
                /\ rpc' = "done")
        /\ reconnects = "failed"
            => (rpc = "done" /\ rpc' = "done" /\ emitTick' = emitTick)
      ]_vars

C5_Witness ==
    /\ resumed
    /\ reconnects = "failed"
    /\ lastEmit = "reconnect_failed"
    /\ rpc = "done"

\* --------------------------------------------------- claims, actuator link

Done(t, opname) == Idle(t) /\ call[t].op = opname
Wrote(t, cmd, ok) == \E i \in DOMAIN call[t].writes : call[t].writes[i] = <<cmd, ok>>
Attempted(t, cmd) == Wrote(t, cmd, TRUE) \/ Wrote(t, cmd, FALSE)

\* C6: trigger() returns True only if its on-command write and its
\* off-command write both succeeded.
C6_TriggerBothWrites ==
    (Done("gui", "trigger") /\ ret["gui"])
        => (Wrote("gui", "on", TRUE) /\ Wrote("gui", "off", TRUE))

\* C7: a trigger() whose on-command was not written successfully writes no
\* off-command and returns False.
C7_NoOffAfterFailedOn ==
    (call["gui"].op = "trigger" /\ ~Wrote("gui", "on", TRUE))
        => /\ ~Attempted("gui", "off")
           /\ Idle("gui") => ret["gui"] = FALSE

C7_Witness ==
    /\ Done("gui", "trigger")
    /\ call["gui"].pre
    /\ call["gui"].writes = << <<"on", FALSE>> >>

\* C8: maintain_connection() on a connected link whose health probe write
\* fails attempts a new open of the port, and returns True only if a new
\* connection was established.
C8_ProbeFailureReconnects ==
    (/\ Done("gui", "maintain")
     /\ call["gui"].pre
     /\ call["gui"].writes # <<>>
     /\ call["gui"].writes[1] = <<"off", FALSE>>)
        => /\ call["gui"].opens >= 1
           /\ ret["gui"] => call["gui"].established

\* C9: maintain_connection() on a disconnected link calls connect() exactly
\* once; on a connected link whose probe write succeeds it calls connect()
\* never, opens no handle and returns True.
C9_MaintainConnects ==
    call["gui"].op = "maintain" =>
        /\ ~call["gui"].pre =>
              /\ call["gui"].connects <= 1
              /\ Idle("gui") => call["gui"].connects = 1
        /\ (call["gui"].pre /\ Wrote("gui", "off", TRUE)) =>
              /\ call["gui"].connects = 0
              /\ call["gui"].opens = 0
              /\ call["gui"].writes = << <<"off", TRUE>> >>
              /\ Idle("gui") /\ ret["gui"] = TRUE

C9_Witness ==
    /\ Done("gui", "maintain")
    /\ call["gui"].pre
    /\ call["gui"].writes = << <<"off", TRUE>> >>
    /\ ret["gui"]

\* the disconnected case of C9 happens as well
C9_WitnessDisconnected ==
    /\ Done("gui", "maintain")
    /\ ~call["gui"].pre
    /\ call["gui"].connects = 1
    /\ call["gui"].established

\* a caller is inside a connection attempt: it has set _connecting and has
\* not yet run the finally clause
AttemptLabels == {"cn_cleanup", "cn_release", "cn_open", "cn_test",
                  "cn_disc_ret", "cn_fin_T", "cn_fin_F"}
InFlight(t) == \E i \in DOMAIN stack[t] : stack[t][i] \in AttemptLabels

\* C10: at most one connect() attempt is in flight at a time.
C10_OneAttemptInFlight ==
    \A t1, t2 \in Callers : (InFlight(t1) /\ InFlight(t2)) => t1 = t2


\* ------------------------------------------------ claims, detection engine
\* the last call wrote an evidence image
WroteImage == lastCall.op = "detect" /\ lastCall.saved

\* C11: after every evidence-image write completes, the evidence store holds
\* at most max_defect_images files.
C11_StoreWithinCap == WroteImage => Cardinality(files) <= max_defect_images

\* C12: when the store holds exactly max_defect_images files and one more
\* image is written, exactly one file is evicted before the write, and it is
\* the file with the oldest modification time.
C12_EvictsOldest ==
    ( /\ WroteImage
      /\ Cardinality(lastCall.before) = max_defect_images
      /\ \A f \in lastCall.before : f.name # lastCall.arg )
    => /\ Cardinality(lastCall.evicted) = 1
       /\ \A e \in lastCall.evicted, f \in lastCall.before : e.mtime <= f.mtime

\* C14: is_defect_angle(angle) is True iff |angle - standard_angle| >
\* tolerance and min_defect_angle <= angle <= max_defect_angle; a deviation
\* equal to the tolerance is not a defect, and the two ends of the band are
\* inside it.
C14_IsDefectAngle ==
    lastCall.op = "is_defect_angle" =>
        LET angle == lastCall.arg
            deviation == IF angle >= standard_angle
                         THEN angle - standard_angle
                         ELSE standard_angle - angle
            inBand == angle \in min_defect_angle .. max_defect_angle
        IN /\ (lastCall.result = 1) <=> (deviation > tolerance /\ inBand)
           /\ deviation = tolerance => lastCall.result = 0
           /\ ( /\ angle \in {min_defect_angle, max_defect_angle}
                /\ deviation > tolerance ) => lastCall.result = 1

\* an angle at the upper end of the band is classified a defect
C14_Witness ==
    /\ lastCall.op = "is_defect_angle"
    /\ lastCall.arg = max_defect_angle
    /\ lastCall.result = 1

\* the fold of an absolute angle th in [0,180]
Folded(th) == IF th > 90 THEN 180 - th ELSE th

\* C15: the angle of a line is its absolute endpoint angle folded into
\* [0,90] (90 gives 90, 180 gives 0), and the angle reported with a defect is
\* that same value.
C15_AngleFolded ==
    /\ lastCall.op = "calculate_line_angle" =>
          LET th == IF lastCall.arg < 0 THEN 0 - lastCall.arg ELSE lastCall.arg
          IN /\ lastCall.result = Folded(th)
             /\ lastCall.result \in 0 .. 90
             /\ th = 90 => lastCall.result = 90
             /\ th = 180 => lastCall.result = 0
    /\ lastCall.op = "detect" =>
          \A i \in DOMAIN lastCall.defects :
              LET d == lastCall.defects[i]
                  th == IF d.theta < 0 THEN 0 - d.theta ELSE d.theta
              IN d.angle = Folded(th) /\ d.angle \in 0 .. 90

\* a segment pointing at -97 degrees is reported as a defect at 83 degrees
C15_Witness ==
    /\ lastCall.op = "detect"
    /\ \E i \in DOMAIN lastCall.defects :
          lastCall.defects[i] = [theta |-> -97, angle |-> 83]

\* --------------------------------------------------- claims, coordinator
\* C13: at most max_defects_per_second defects are accepted per second,
\* whatever the size of the batches; of 2*cap defects produced within one
\* second exactly cap are accepted.
C13_RateCap ==
    /\ windowAccepted <= max_defects_per_second
    /\ ( /\ lastFrame.ran
         /\ lastFrame.fresh
         /\ lastFrame.triggers = 0
         /\ lastFrame.produced = 2 * max_defects_per_second )
       => lastFrame.accepted = max_defects_per_second

\* C16: a frame whose ROI is less than 10 pixels wide or high is not given to
\* the detection engine: no defect, no evidence image, no relay trigger, and
\* nothing drawn on the frame by detection.
C16_SmallRoiSkipped ==
    (lastFrame.due /\ (lastFrame.w < 10 \/ lastFrame.h < 10))
    => /\ ~lastFrame.ran
       /\ lastFrame.produced = 0
       /\ lastFrame.images = 0
       /\ lastFrame.accepted = 0
       /\ lastFrame.triggers = 0
       /\ ~lastFrame.drawn

\* a frame arrived with detection due and a ROI 50 wide and 9 high
C16_Witness ==
    /\ lastFrame.due
    /\ lastFrame.w = 50
    /\ lastFrame.h = 9
    /\ ~lastFrame.ran

\* ---------------------------------------------- claims, wire and shutdown
\* C17: every byte frame written to the serial handle is A0 01 00 A1 (off) or
\* A0 01 01 A2 (on): four bytes, the last the sum of the first three.
C17_WireFrames ==
    \A f \in wire :
        /\ f \in {<<160, 1, 0, 161>>, <<160, 1, 1, 162>>}
        /\ Len(f) = 4
        /\ f[4] = f[1] + f[2] + f[3]

\* a trigger pulse has put both frames on the wire
C17_Witness ==
    /\ Done("gui", "trigger")
    /\ Wrote("gui", "on", TRUE)
    /\ wire = {<<160, 1, 0, 161>>, <<160, 1, 1, 162>>}

\* C18: disconnect() ends with is_connected_flag False and the handle None,
\* whatever errors the turn-off write or the close ran into, and on a
\* connected link it has written the off command before closing the handle.
C18_DisconnectReleases ==
    Done("gui", "disconnect") =>
        /\ ~is_connected_flag
        /\ serial = "None"
        /\ call["gui"].pre => call["gui"].offBeforeClose

\* a disconnect of a connected link whose turn-off write failed
C18_Witness ==
    /\ Done("gui", "disconnect")
    /\ call["gui"].pre
    /\ Wrote("gui", "off", FALSE)
    /\ call["gui"].offBeforeClose

\* C19: once stop_test() has returned, the continuous-test thread writes no
\* further on or off command: no turn_on() or turn_off() it calls after the
\* return reaches the serial handle.
C19_NoWriteAfterStop == Done("gui", "stop_test") => writesAfterStop # 2

\* C20: the owner's maintenance tick calls maintain_connection(): when the
\* link is found disconnected at a tick, a reconnect is attempted at that
\* tick.
C20_TickReconnects ==
    ( /\ Done("gui", "maintain_relay_connection")
      /\ relay_enabled
      /\ ~call["gui"].pre )
    => call["gui"].connects >= 1

\* ------------------------------------------- claims, pacing and geometry
\* C21: two consecutive frame_ready notifications are never emitted less
\* than frame_interval apart, whatever the durations of the frame reads.
C21_FramesPaced ==
    [][ (rpc = "r_ok" /\ rpc' = "r_while" /\ published.shape # <<>>)
            => sinceReady >= FrameInterval ]_vars

\* C25: every frame published via frame_ready has the configured resolution
\* as (height, width); a frame read with other dimensions is resized before
\* it is emitted.
C25_PublishedGeometry ==
    published.shape # <<>> => published.shape = <<Resolution[2], Resolution[1]>>

\* a frame read as 480 x 640 was published as 720 x 1280
C25_Witness ==
    /\ lastEmit = "frame"
    /\ published.read = <<480, 640>>
    /\ published.shape = <<720, 1280>>

\* C27: after a successful reconnect another reconnect is initiated only
\* after a further max_consecutive_failures failed reads, not after a single
\* failed read.
C27_BurstOverAfterReconnect ==
    (rpc = "r_except" /\ reconnects = "ok")
        => failsSinceReconnect >= max_consecutive_failures

\* ------------------------------------------------- claims, defect pulses
\* the commands written since trigger() was called for the defect
PulseWrites(t) ==
    LET w == call[t].writes
        m == defect_event.mark
    IN [i \in 1 .. (Len(w) - m) |-> w[m + i][1]]

\* C22: for each accepted defect trigger() is invoked at most once, and only
\* after maintain_connection() returned True for that defect; one trigger
\* writes at most one on command and at most one off command, the on command
\* first.
C22_OnePulsePerDefect ==
    call["gui"].op = "defect" =>
        /\ defect_event.triggers <= 1
        /\ defect_event.triggers = 1 =>
              /\ defect_event.maintained = "yes"
              /\ PulseWrites("gui") \in {<<>>, <<"on">>, <<"on", "off">>}
        /\ defect_event.triggers = 0 => ~Attempted("gui", "on")

\* a defect whose health probe and pulse were all written
C22_Witness ==
    /\ Done("gui", "defect")
    /\ defect_event.triggers = 1
    /\ call["gui"].writes = << <<"off", TRUE>>, <<"on", TRUE>>, <<"off", TRUE>> >>

\* ---------------------------------------------- claims, connection attempt
\* the validation write of the call was made, with this outcome
Validated(t, ok) == call[t].writes # <<>> /\ call[t].writes[1] = <<"off", ok>>

\* C23: a connect() on a disconnected link returns True and marks the link
\* connected iff the port was opened and the validating off-command write
\* succeeded; when the validation write fails the handle is let go and the
\* link is left disconnected.
C23_ConnectIffValidated ==
    (Done("gui", "connect") /\ ~call["gui"].pre) =>
        /\ ret["gui"] <=> Validated("gui", TRUE)
        /\ ret["gui"] <=> (is_connected_flag /\ serial = "open")
        /\ Validated("gui", FALSE) => (~is_connected_flag /\ serial = "None")

\* ------------------------------------------------ claims, faulty frames
\* the segments of a batch that are handled without error, lie inside the
\* frame and have a defect angle
DefectLines(lines) ==
    SelectSeq(lines, LAMBDA l : /\ ~l.fails
                                /\ l.inside
                                /\ IsDefectAngle(CalculateLineAngle(l.theta)))

\* C24: detect_and_draw_lines_with_angles returns for every input: a None
\* or empty frame gives no defect, a failing processing step gives no defect
\* for that invocation, and a segment whose handling fails is skipped while
\* every other segment of the batch is handled as usual.
C24_DetectNeverRaises ==
    lastCall.op = "detect" =>
        /\ lastCall.frame \in {"none", "bad"} => lastCall.defects = <<>>
        /\ lastCall.frame = "image" =>
              LET kept == DefectLines(lastCall.lines)
              IN /\ Len(lastCall.defects) = Len(kept)
                 /\ \A i \in DOMAIN kept :
                       lastCall.defects[i].theta = kept[i].theta

\* the first segment failed and the second was reported as a defect
C24_Witness ==
    /\ lastCall.op = "detect"
    /\ Len(lastCall.lines) = 2
    /\ lastCall.lines[1].fails
    /\ lastCall.defects = << [theta |-> -97, angle |-> 83] >>

\* a processing step failed on the frame
C24_WitnessBadFrame ==
    /\ lastCall.op = "detect"
    /\ lastCall.frame = "bad"
    /\ lastCall.defects = <<>>

\* ------------------------------------------- claims, detection rate
\* C26: the detection engine is run at most once per detection_interval: a
\* run begins at least detection_interval after the run before began, and a
\* frame that arrives sooner is not given to detection.
C26_DetectionSpaced ==
    /\ lastFrame.ran => lastFrame.spaced
    /\ lastFrame.early =>
          /\ ~lastFrame.ran
          /\ lastFrame.produced = 0
          /\ lastFrame.accepted = 0
          /\ ~lastFrame.drawn

\* a frame arrived less than detection_interval after a run began
C26_Witness ==
    /\ lastFrame.early
    /\ ~lastFrame.ran
    /\ sinceRun < DetectionInterval

\* C29: within one rate-limit window, once defect_count_this_second has
\* reached max_defects_per_second every later batch is dropped until the
\* window expires (none of its defects is accepted), however update_fps()
\* interleaves with process_defects().
C29_CapHoldsInWindow == lastFrame.capBefore => lastFrame.accepted = 0

InPulse(t) ==
    /\ call[t].op = "trigger"
    /\ ~Idle(t)
    /\ Wrote(t, "on", TRUE)
    /\ ~Attempted(t, "off")

\* C28: while trigger() is between its on command and its off command, the
\* continuous-test thread writes no command to the serial handle.
C28_PulseUninterrupted ==
    [][ InPulse("gui") =>
          ~\E k \in TestThreads : /\ tpc[k] \in WriteLabels
                                   /\ tpc'[k] # tpc[k]
                                   /\ serial = "open" ]_vars

\* ----------------------------------------------- claims, the fault log sink
\* C31: for an accepted defect whose log_fault() call raised, the handling
\* of the defect still ends normally, the defect is appended to the defect
\* list, and the relay is still asked for (maintain_connection() is called
\* when the relay is enabled).
C31_LogFailureKeepsDefect ==
    (Done("gui", "defect") /\ defect_event.log = "raise") =>
        /\ defect_event.appended
        /\ relay_enabled => defect_event.maintained # "none"

\* --------------------------------------------------- claims, test_relay()
\* C39: test_relay(cycles, on, off) called on a connected link writes on and
\* off commands alternately, the on command first; it stops at the first
\* write that failed and returns False there; it returns True exactly when
\* all 2*cycles writes were made and succeeded; when an off write failed the
\* command written before it, the last one that went through, is the on
\* command.
C39_TestRelaySequence ==
    (Done("gui", "test_relay") /\ call["gui"].pre) =>
        LET w == call["gui"].writes
            n == call["gui"].cycles
        IN /\ Len(w) <= 2 * n
           /\ \A j \in DOMAIN w :
                 w[j][1] = IF j % 2 = 1 THEN "on" ELSE "off"
           /\ \A j \in DOMAIN w : j < Len(w) => w[j][2]
           /\ ret["gui"] = (Len(w) = 2 * n /\ \A j \in DOMAIN w : w[j][2])
           /\ (w # <<>> /\ w[Len(w)] = <<"off", FALSE>>)
                 => w[Len(w) - 1] = <<"on", TRUE>>

\* a test of two cycles that went through
C39_Witness ==
    /\ Done("gui", "test_relay") /\ call["gui"].pre
    /\ call["gui"].cycles = MaxCycles
    /\ Len(call["gui"].writes) = 2 * MaxCycles
    /\ ret["gui"]

\* a test stopped by the off write of its second cycle
C39_WitnessOffFailed ==
    /\ Done("gui", "test_relay") /\ call["gui"].pre
    /\ Len(call["gui"].writes) = 4
    /\ call["gui"].writes[4] = <<"off", FALSE>>
    /\ ~ret["gui"]

\* ------------------------------------------- claims, the link not connected
ActuationOps == {"turn_on", "turn_off", "trigger", "test_relay"}

\* a call made while the link was not connected has returned False, has
\* written no command, opened no handle and called no connect()
RefusedWhenDisconnected ==
    (Idle("gui") /\ call["gui"].op \in ActuationOps /\ ~call["gui"].pre) =>
        /\ ~ret["gui"]
        /\ call["gui"].writes = <<>>
        /\ call["gui"].opens = 0
        /\ call["gui"].connects = 0

\* trigger() refused on a link that had been connected and was disconnected
C32_Witness ==
    /\ Done("gui", "trigger") /\ ~call["gui"].pre
    /\ serial = "None" /\ wire # {}

\* C32: turn_on(), turn_off(), trigger() and test_relay() called while the
\* link is not connected return False, write no command, open no handle and
\* call no connect(); the link becomes connected again only in the
\* validation step of a connect() that succeeds.
C32_UnavailableUntilConnect ==
    /\ []RefusedWhenDisconnected
    /\ [][ (~IsConnectedResult /\ IsConnectedResult') =>
              /\ call["gui"].connects >= 1
              /\ At("gui", "cn_test") ]_vars

\* ------------------------------------------------------ claims, connect()
\* C33: connect() called on a link that is connected returns True; it opens
\* no handle, not even the temporary one of the forced release, writes no
\* command, and leaves the handle open and the flag set.
C33_ConnectIdempotent ==
    (call["gui"].op = "connect" /\ call["gui"].pre) =>
        /\ call["gui"].opens = 0
        /\ call["gui"].writes = <<>>
        /\ serial = "open" /\ is_connected_flag
        /\ ~connecting
        /\ Idle("gui") => ret["gui"]

\* a second connect() on the link the first one connected
C33_Witness ==
    /\ Done("gui", "connect") /\ call["gui"].pre
    /\ ret["gui"]
    /\ wire = {TestCommand}

\* C36: the _connecting guard is set only while a connect() is between
\* line 52 and its finally clause: whenever connect() has returned, by
\* whatever path, the guard is False.
C36_GuardReleased ==
    connecting => InFlight("gui")

\* a connect() that failed at the opening of the port has returned
C36_WitnessSerialError ==
    /\ Done("gui", "connect") /\ ~ret["gui"]
    /\ call["gui"].opens >= 1 /\ call["gui"].writes = <<>>
    /\ ~connecting

\* a connect() whose validation failed has returned
C36_WitnessValidation ==
    /\ Done("gui", "connect") /\ ~ret["gui"]
    /\ call["gui"].writes = << <<"off", FALSE>> >>
    /\ ~connecting

\* ---------------------------------------------- claims, reconnect() order
ReconnectOutcomes == {"reconnected", "reconnect_failed", "reconnect_exc"}

\* C34: during the backoff of reconnect() self.cap is None, the capture
\* having been released before; the new capture is opened only when the
\* backoff has elapsed; and the notification before every reconnect-result
\* notification is "Connection lost".
C34_ReleaseSleepReacquire ==
    /\ [](rpc = "rc_sleep" => cap = "None")
    /\ [][ /\ (rpc = "rc_sleep" /\ rpc' # rpc)
                => (sleepElapsed >= ReconnectDelay /\ rpc' = "ic_open")
           /\ (emitTick' # emitTick /\ lastEmit' \in ReconnectOutcomes)
                => lastEmit = "conn_lost" ]_vars

\* the new capture has been opened after a full backoff
C34_Witness ==
    /\ rpc = "ic_check" /\ initFrom = "reconnect"
    /\ cap = "open"
    /\ lastEmit = "conn_lost"
    /\ reconnects = "pending"

\* -------------------------------------------- claims, the end of the loop
\* C35: when the loop of run() has been left because a reconnect failed,
\* self.running is False and self.cap is None.
C35_FailedExitClearsRunning ==
    (rpc = "done" /\ reconnects = "failed") =>
        (~running /\ cap = "None")

\* ------------------------------------------- claims, the start that fails
\* run() has found no capture to start with: the first VideoCapture was not
\* opened, and initialize_capture() goes through its except clause to the
\* test of line 50
InitialFailure ==
    /\ initFrom = "run"
    /\ \/ rpc = "ic_check" /\ cap # "open"
       \/ rpc = "ic_except"
       \/ rpc = "r_check_cap" /\ cap # "open"

\* C38: with no source configured, or with no opened capture after the
\* first initialize_capture(), run() emits one error notification, the only
\* notification of the thread, attempts no reconnect, and ends with self.cap
\* None; nothing is emitted after it has ended.
C38_StartFailureIsFinal ==
    /\ [](InitialFailure => (emitted = "none" /\ reconnects = "none"))
    /\ [][ /\ (source = "none" /\ rpc = "r_check_src" /\ rpc' # rpc)
                => (rpc' = "done" /\ lastEmit' = "no_source")
           /\ (InitialFailure /\ rpc' # rpc)
                => \/ InitialFailure'
                   \/ rpc' = "done" /\ lastEmit' = "error_starting"
           /\ (rpc' = "done" /\ lastEmit' \in {"no_source", "error_starting"})
                => /\ emitted' = "one"
                   /\ cap' = "None"
                   /\ reconnects' = "none"
                   /\ published' = [read |-> <<>>, shape |-> <<>>]
           /\ rpc = "done" => (rpc' = "done" /\ emitted' = emitted) ]_vars

\* the first capture was not opened and run() has ended
C38_Witness ==
    /\ rpc = "done" /\ lastEmit = "error_starting"
    /\ source = "camera" /\ spc = "none"
    /\ emitted = "one"

\* no source was configured and run() has ended
C38_WitnessNoSource ==
    /\ rpc = "done" /\ lastEmit = "no_source"
    /\ emitted = "one"

\* ------------------------------------------ claims, one test at a time
\* thread k is inside the loop of _continuous_test_thread()
Cycling(k) ==
    tpc[k] \in {"t_on_chk", "t_on_wr", "t_sleep1", "t_off_chk", "t_off_wr",
                "t_sleep2"}

\* C37: at most one continuous-test thread is inside its loop at any time,
\* and continuous_test() called while a test thread is cycling returns
\* False.
C37_OneTestThread ==
    /\ Cardinality({k \in TestSlots : Cycling(k)}) <= 1
    /\ (Done("gui", "continuous_test") /\ ret["gui"])
          => \A k \in TestSlots : Cycling(k) => k = test_thread

=============================================================================
